---- MODULE Spec2Model ----
(***************************************************************************)
(* Long-term memory engine of Project-Memory: the SQLite record store      *)
(* (memory/long_term.py), the similarity test (memory/embeddings.py), the  *)
(* dedup protocol of the callers (main.py, api.py) and the compaction      *)
(* pipeline (memory/compression.py).                                       *)
(*                                                                         *)
(* Conventions                                                             *)
(*  - Python None / [] for an embedding is the empty tuple <<>>: the code  *)
(*    tests embeddings by truthiness, and add_memory stores NULL for both. *)
(*  - A Memory whose id is None is id 0 (AUTOINCREMENT rowids start at 1). *)
(*  - Thresholds and similarities are compared in hundredths (0.95 is 95). *)
(*  - Python results True / False / a propagated exception are the strings *)
(*    "true" / "false" / "raised".                                         *)
(*  - issued is a history variable: the ids of all rows ever committed.    *)
(*  - buffer is the ShortTermBuffer of the chat loop (NoBuffer until it is *)
(*    constructed); adds is a history variable: every message handed to    *)
(*    its add, in call order.                                              *)
(***************************************************************************)
EXTENDS Integers, Sequences, FiniteSets, TLC

VARIABLES memories, sqlite_sequence, clock, last, issued, buffer, adds,
          threads, gemini

vars ==
    <<memories, sqlite_sequence, clock, last, issued, buffer, adds, threads,
      gemini>>

----------------------------------------------------------------------------
(* Bounds of the model *)

\* ids the table may hand out (every insert, committed compaction included)
MaxId == 3
\* values of datetime.utcnow() seen during a run: 0..MaxClock
MaxClock == 1
\* largest compress_count argument tried for maybe_compress
MaxBatch == 2
\* largest threshold argument tried for maybe_compress
MaxThreshold == 2
\* most extracted facts handed to one process_and_store_facts call
MaxItems == 1

\* largest top_k argument tried for retrieve
MaxTopK == 2

\* largest max_size of a ShortTermBuffer, and most add calls on one
MaxSize == 2

MaxAdds == 3

\* longest JSON list the remote extractor is given back
MaxReply == 3

\* most memory embeddings handed to jepa_inspired_refine on its own
MaxEmbs == 3

\* requests served at the same time
MaxCallers == 2

\* most keys listed in GEMINI_API_KEY
MaxKeys == 2

----------------------------------------------------------------------------
(* Program constants and input domains *)

CATEGORIES == <<"personal", "food", "travel", "misc">>

\* config.DUPLICATE_SIMILARITY_THRESHOLD = 0.95, in hundredths
DUPLICATE_SIMILARITY_THRESHOLD == 95

\* thresholds tried: 0.0, the configured 0.95, and 1.0
Thresholds == {0, DUPLICATE_SIMILARITY_THRESHOLD, 100}

\* categories the modelled callers supply
InputCategories == {"food", "misc"}

\* fact texts. The encoder is deterministic for a fixed backend: "b" encodes
\* to a diagonal vector (norm sqrt 2, inexact in floating point), "z" to a
\* zero vector, every other text (the summaries) to an axis vector (norm 1,
\* exact in floating point). "n" is only ever stored without an embedding.
Contents == {"b", "z", "n"}

\* texts the summarizer may produce
SummaryTexts == {"s"}

NoEmbedding == <<>>

Vectors == {<<0, 0>>, <<1, 0>>, <<1, 1>>}

model_encode(text) ==
    IF text = "z" THEN <<0, 0>> ELSE IF text = "b" THEN <<1, 1>> ELSE <<1, 0>>

\* encode(text): the model's vector, or an exception (the backend cannot be
\* loaded, or the model call fails); encode never returns None
encode(text, fails) ==
    IF fails THEN [raised |-> TRUE, vec |-> NoEmbedding]
    ELSE [raised |-> FALSE, vec |-> model_encode(text)]

Embeddings == Vectors \cup {NoEmbedding}

NoneId == 0

----------------------------------------------------------------------------
(* memory/embeddings.py *)

RECURSIVE DotFrom(_, _, _)
DotFrom(a, b, i) ==
    IF i > Len(a) THEN 0 ELSE a[i] * b[i] + DotFrom(a, b, i + 1)

Dot(a, b) == DotFrom(a, b, 1)

IsSquare(n) == \E k \in 0..n : k * k = n

\* cosine_similarity(a, b): 0.0 when either norm is 0, else dot/(|a||b|).
\* The value is kept as dot / sqrt(nn) plus a rounding direction ulp: the
\* float quotient is the real value when both norms are exact (perfect
\* squares), and for the vectors of the model it lies just below the real
\* value otherwise: 2.0 / (sqrt(2.0) * sqrt(2.0)) is 0.9999999999999998.
cosine_similarity(a, b) ==
    LET na == Dot(a, a)
        nb == Dot(b, b)
    IN  IF na = 0 \/ nb = 0
        THEN [dot |-> 0, nn |-> 1, ulp |-> 0]
        ELSE [dot |-> Dot(a, b), nn |-> na * nb,
              ulp |-> IF IsSquare(na) /\ IsSquare(nb) THEN 0 ELSE -1]

\* sign of (sim - thr/100) in real arithmetic
CompareReal(sim, thr) ==
    LET l == 100 * sim.dot
        l2 == l * l
        r2 == thr * thr * sim.nn
    IN  IF l >= 0 /\ thr >= 0
        THEN (IF l2 > r2 THEN 1 ELSE IF l2 < r2 THEN -1 ELSE 0)
        ELSE IF l >= 0 THEN 1
        ELSE IF thr >= 0 THEN -1
        ELSE (IF l2 < r2 THEN 1 ELSE IF l2 > r2 THEN -1 ELSE 0)

\* the Python test  cosine_similarity(...) >= threshold
SimAtLeast(sim, thr) ==
    LET c == CompareReal(sim, thr)
    IN  c > 0 \/ (c = 0 /\ sim.ulp >= 0)

----------------------------------------------------------------------------
(* memory/long_term.py: the memories table *)

Memory(id, content, category, embedding, created_at) ==
    [id |-> id, content |-> content, category |-> category,
     embedding |-> embedding, created_at |-> created_at]

\* ORDER BY created_at DESC
BeforeDescending(r, o) ==
    r.created_at > o.created_at \/ (r.created_at = o.created_at /\ r.id < o.id)

\* ORDER BY created_at ASC with rows of equal created_at latest first
BeforeTiesLatest(r, o) ==
    r.created_at < o.created_at \/ (r.created_at = o.created_at /\ r.id > o.id)

\* ORDER BY created_at ASC; rows of equal created_at come in rowid order
\* (the scan of idx_created_at, whose entries are (created_at, rowid))
Before(r, o) ==
    r.created_at < o.created_at \/ (r.created_at = o.created_at /\ r.id < o.id)

RECURSIVE OrderByCreatedAt(_)
OrderByCreatedAt(rows) ==
    IF rows = {} THEN <<>>
    ELSE LET m == CHOOSE r \in rows : \A o \in rows \ {r} : Before(r, o)
         IN  <<m>> \o OrderByCreatedAt(rows \ {m})

Range(s) == {s[i] : i \in 1..Len(s)}

Min(a, b) == IF a < b THEN a ELSE b

\* a table whose id column is a plain rowid: the id after the largest one
\* present in the table
add_memory_rowid(db, sq, now, content, category, embedding, fault) ==
    IF fault
    THEN [db |-> db, seq |-> sq, raised |-> TRUE]
    ELSE LET top == IF db = {} THEN 0
                    ELSE CHOOSE i \in {r.id : r \in db} : \A r \in db : r.id <= i
         IN  [db |-> db \cup {Memory(top + 1, content, category, embedding, now)},
              seq |-> sq + 1, raised |-> FALSE]

\* add_memory: INSERT + commit. fault = TRUE is a sqlite3 error raised by
\* the INSERT or the commit: nothing is committed and the error propagates.
\* AUTOINCREMENT takes the id after the largest ever used (sqlite_sequence).
add_memory(db, sq, now, content, category, embedding, fault) ==
    IF fault
    THEN [db |-> db, seq |-> sq, raised |-> TRUE]
    ELSE [db |-> db \cup {Memory(sq + 1, content, category, embedding, now)},
          seq |-> sq + 1, raised |-> FALSE]

\* a reader that empties the table it read
after_select_clears(db) == {}

\* the table after a reader's connection is closed: a SELECT writes nothing
\* and no reader commits
after_select(db) == db

\* a scan of the whole table instead of the category
get_memories_by_category_unfiltered(db, category) == OrderByCreatedAt(db)

get_memories_by_category(db, category) ==
    OrderByCreatedAt({r \in db : r.category = category})

get_all_memories(db) == OrderByCreatedAt(db)

get_memory_count(db) == Cardinality(db)

\* a DELETE whose WHERE clause matches no row
delete_memories_none(db, ids, fault) ==
    IF ids = {} THEN [db |-> db, raised |-> FALSE]
    ELSE IF fault THEN [db |-> db, raised |-> TRUE]
    ELSE [db |-> db, raised |-> FALSE]

\* a DELETE without its WHERE clause
delete_memories_clears(db, ids, fault) ==
    IF ids = {} THEN [db |-> db, raised |-> FALSE]
    ELSE IF fault THEN [db |-> db, raised |-> TRUE]
    ELSE [db |-> {}, raised |-> FALSE]

\* a soft delete: the rows stay, their content blanked
delete_memories_blanks(db, ids, fault) ==
    IF ids = {} THEN [db |-> db, raised |-> FALSE]
    ELSE IF fault THEN [db |-> db, raised |-> TRUE]
    ELSE [db |-> {IF r.id \in ids THEN [r EXCEPT !.content = ""] ELSE r : r \in db},
          raised |-> FALSE]

\* a DELETE whose id list lost its last element
delete_memories_drops_last(db, ids, fault) ==
    IF ids = {} THEN [db |-> db, raised |-> FALSE]
    ELSE IF fault THEN [db |-> db, raised |-> TRUE]
    ELSE LET top == CHOOSE i \in ids : \A k \in ids : k <= i
         IN  [db |-> {r \in db : r.id \notin ids \ {top}}, raised |-> FALSE]

\* delete_memories: no statement at all for an empty id list
delete_memories(db, ids, fault) ==
    IF ids = {} THEN [db |-> db, raised |-> FALSE]
    ELSE IF fault THEN [db |-> db, raised |-> TRUE]
    ELSE [db |-> {r \in db : r.id \notin ids}, raised |-> FALSE]

\* get_oldest_memories: ORDER BY created_at ASC LIMIT ? (a negative LIMIT
\* is no limit in SQLite)
\* the last rows of the ordering in place of the first
get_oldest_memories_newest(db, limit) ==
    LET all == OrderByCreatedAt(db)
        n == IF limit < 0 THEN Len(all) ELSE Min(limit, Len(all))
    IN  SubSeq(all, Len(all) - n + 1, Len(all))

get_oldest_memories(db, limit) ==
    LET all == OrderByCreatedAt(db)
    IN  IF limit < 0 THEN all ELSE SubSeq(all, 1, Min(limit, Len(all)))

\* a scan that answers after the first candidate
ScanCandidatesFirstOnly(candidates, i, embedding, threshold) ==
    /\ i <= Len(candidates)
    /\ candidates[i].embedding # NoEmbedding
    /\ SimAtLeast(cosine_similarity(embedding, candidates[i].embedding),
                  threshold)

RECURSIVE ScanCandidates(_, _, _, _)
ScanCandidates(candidates, i, embedding, threshold) ==
    IF i > Len(candidates) THEN FALSE
    ELSE IF /\ candidates[i].embedding # NoEmbedding
            /\ SimAtLeast(cosine_similarity(embedding, candidates[i].embedding),
                          threshold)
         THEN TRUE
         ELSE ScanCandidates(candidates, i + 1, embedding, threshold)

\* has_similar_memory: the candidates are fetched first, then an absent
\* embedding returns False, then the candidates are scanned in order
has_similar_memory(db, embedding, category, threshold) ==
    LET candidates == get_memories_by_category(db, category)
    IN  IF embedding = NoEmbedding THEN FALSE
        ELSE ScanCandidates(candidates, 1, embedding, threshold)

\* the connection's transaction: committed is the database file, working
\* is what the connection sees after its uncommitted statements
conn_commit(committed, working) == working

\* a rollback that keeps the uncommitted statements (an autocommit
\* connection, or a commit in the except branch)
conn_rollback_keeps_writes(committed, working) == working

conn_rollback(committed, working) == committed

ReplaceFaults == {"none", "serialize", "insert", "delete", "commit"}

\* replace_with_compressed: one transaction holding the INSERT of the
\* summary and the DELETE of the old ids; any exception inside the try
\* block (json.dumps, INSERT, DELETE, commit) is caught, rolled back, and
\* reported as False. calls: the statements the attempt got to, with
\* "dumps" for json.dumps, which runs only for a non-empty embedding.
replace_with_compressed(db, sq, now, old_ids, new_content, new_embedding, fault) ==
    LET committed == [db |-> db, seq |-> sq]
        w1 == [db |-> db \cup {Memory(sq + 1, new_content, "misc", new_embedding, now)},
               seq |-> sq + 1]
        ids == old_ids \ {NoneId}
        w2 == IF ids # {}
              THEN [db |-> {r \in w1.db : r.id \notin ids}, seq |-> w1.seq]
              ELSE w1
        dumps == IF new_embedding # NoEmbedding THEN {"dumps"} ELSE {}
        upto_delete == IF ids # {} THEN dumps \cup {"insert", "delete"}
                       ELSE dumps \cup {"insert"}
        done(state, result, calls) ==
            [db |-> state.db, seq |-> state.seq, result |-> result, calls |-> calls]
    IN  IF old_ids = {} THEN done(committed, "false", {})
        ELSE IF fault = "serialize" /\ new_embedding # NoEmbedding
             THEN done(conn_rollback(committed, committed), "false", dumps)
        ELSE IF fault = "insert"
             THEN done(conn_rollback(committed, committed), "false",
                       dumps \cup {"insert"})
        ELSE IF fault = "delete" /\ ids # {}
             THEN done(conn_rollback(committed, w1), "false", upto_delete)
        ELSE IF fault = "commit"
             THEN done(conn_rollback(committed, w2), "false",
                       upto_delete \cup {"commit"})
        ELSE done(conn_commit(committed, w2), "true", upto_delete \cup {"commit"})

----------------------------------------------------------------------------
(* llm/gemini.py: the summarizer *)

\* what generate() may hand back: None, an empty text, or a text
SummarizerReplies ==
    {[some |-> FALSE, text |-> ""], [some |-> TRUE, text |-> ""]}
        \cup {[some |-> TRUE, text |-> t] : t \in SummaryTexts}

NoReply == [some |-> FALSE, text |-> ""]

\* summarize_memories: None for no texts, else generate's reply; an
\* exception is swallowed into None
summarize_memories(memory_texts, reply) ==
    IF memory_texts = <<>> THEN NoReply ELSE reply

----------------------------------------------------------------------------
(* memory/compression.py *)

CompressFaults == {"none", "insert", "delete"}

\* the docstring's reading, "if memory count > threshold"
below_threshold_inclusive(count, threshold) == count <= threshold

\* `if count < threshold`
below_threshold(count, threshold) == count < threshold

\* a test for None alone, which lets an empty text through
no_summary_none_only(summary) == ~summary.some

\* `if not summary`: None and the empty text alike
no_summary(summary) == ~summary.some \/ summary.text = ""

ContentsOf(ms) == [i \in 1..Len(ms) |-> ms[i].content]

\* a summary stamped with the created_at of the oldest record of the batch
maybe_compress_backdated(db, sq, now, threshold, compress_count, reply, enc_fails, fault) ==
    LET count == get_memory_count(db)
        oldest == get_oldest_memories(db, compress_count)
        summary == summarize_memories(ContentsOf(oldest), reply)
        content == "[Compressed summary] " \o summary.text
        embedding == encode(content, enc_fails)
        added == add_memory(db, sq, oldest[1].created_at, content, "misc",
                            embedding.vec,
                            fault = "insert")
        ids == {oldest[i].id : i \in {j \in 1..Len(oldest) : oldest[j].id # NoneId}}
        deleted == delete_memories(added.db, ids, fault = "delete")
        out(d, q, result, path, calls) ==
            [db |-> d, seq |-> q, result |-> result, path |-> path, calls |-> calls]
    IN  IF below_threshold(count, threshold)
        THEN out(db, sq, "false", <<"ThresholdCheck", "Aborted">>, {})
        ELSE IF oldest = <<>>
        THEN out(db, sq, "false", <<"ThresholdCheck", "BatchSelected", "Aborted">>, {})
        ELSE IF no_summary(summary)
        THEN out(db, sq, "false",
                 <<"ThresholdCheck", "BatchSelected", "Aborted">>, {"summarize"})
        ELSE IF embedding.raised
        THEN out(db, sq, "raised",
                 <<"ThresholdCheck", "BatchSelected", "Summarized", "Aborted">>,
                 {"summarize", "encode"})
        ELSE IF added.raised
        THEN out(db, sq, "raised",
                 <<"ThresholdCheck", "BatchSelected", "Summarized", "Aborted">>,
                 {"summarize", "encode", "insert"})
        ELSE IF deleted.raised
        THEN out(deleted.db, added.seq, "raised",
                 <<"ThresholdCheck", "BatchSelected", "Summarized", "Aborted">>,
                 {"summarize", "encode", "insert", "delete"})
        ELSE out(deleted.db, added.seq, "true",
                 <<"ThresholdCheck", "BatchSelected", "Summarized", "Committed">>,
                 {"summarize", "encode", "insert", "delete"})

\* a summary filed under the category of the oldest record of the batch
maybe_compress_keeps_category(db, sq, now, threshold, compress_count, reply, enc_fails, fault) ==
    LET count == get_memory_count(db)
        oldest == get_oldest_memories(db, compress_count)
        summary == summarize_memories(ContentsOf(oldest), reply)
        content == "[Compressed summary] " \o summary.text
        embedding == encode(content, enc_fails)
        added == add_memory(db, sq, now, content, oldest[1].category,
                            embedding.vec,
                            fault = "insert")
        ids == {oldest[i].id : i \in {j \in 1..Len(oldest) : oldest[j].id # NoneId}}
        deleted == delete_memories(added.db, ids, fault = "delete")
        out(d, q, result, path, calls) ==
            [db |-> d, seq |-> q, result |-> result, path |-> path, calls |-> calls]
    IN  IF below_threshold(count, threshold)
        THEN out(db, sq, "false", <<"ThresholdCheck", "Aborted">>, {})
        ELSE IF oldest = <<>>
        THEN out(db, sq, "false", <<"ThresholdCheck", "BatchSelected", "Aborted">>, {})
        ELSE IF no_summary(summary)
        THEN out(db, sq, "false",
                 <<"ThresholdCheck", "BatchSelected", "Aborted">>, {"summarize"})
        ELSE IF embedding.raised
        THEN out(db, sq, "raised",
                 <<"ThresholdCheck", "BatchSelected", "Summarized", "Aborted">>,
                 {"summarize", "encode"})
        ELSE IF added.raised
        THEN out(db, sq, "raised",
                 <<"ThresholdCheck", "BatchSelected", "Summarized", "Aborted">>,
                 {"summarize", "encode", "insert"})
        ELSE IF deleted.raised
        THEN out(deleted.db, added.seq, "raised",
                 <<"ThresholdCheck", "BatchSelected", "Summarized", "Aborted">>,
                 {"summarize", "encode", "insert", "delete"})
        ELSE out(deleted.db, added.seq, "true",
                 <<"ThresholdCheck", "BatchSelected", "Summarized", "Committed">>,
                 {"summarize", "encode", "insert", "delete"})

\* maybe_compress. reply: what generate() returns if asked; enc_fails: the
\* encoder raises if asked; fault: the database write that raises.
\* path is the attempt's walk through
\*   ThresholdCheck -> BatchSelected -> Summarized -> Committed | Aborted
\* and calls the collaborators that were consulted.
maybe_compress(db, sq, now, threshold, compress_count, reply, enc_fails, fault) ==
    LET count == get_memory_count(db)
        oldest == get_oldest_memories(db, compress_count)
        summary == summarize_memories(ContentsOf(oldest), reply)
        content == "[Compressed summary] " \o summary.text
        embedding == encode(content, enc_fails)
        added == add_memory(db, sq, now, content, "misc", embedding.vec,
                            fault = "insert")
        ids == {oldest[i].id : i \in {j \in 1..Len(oldest) : oldest[j].id # NoneId}}
        deleted == delete_memories(added.db, ids, fault = "delete")
        out(d, q, result, path, calls) ==
            [db |-> d, seq |-> q, result |-> result, path |-> path, calls |-> calls]
    IN  IF below_threshold(count, threshold)
        THEN out(db, sq, "false", <<"ThresholdCheck", "Aborted">>, {})
        ELSE IF oldest = <<>>
        THEN out(db, sq, "false", <<"ThresholdCheck", "BatchSelected", "Aborted">>, {})
        ELSE IF no_summary(summary)
        THEN out(db, sq, "false",
                 <<"ThresholdCheck", "BatchSelected", "Aborted">>, {"summarize"})
        ELSE IF embedding.raised
        THEN out(db, sq, "raised",
                 <<"ThresholdCheck", "BatchSelected", "Summarized", "Aborted">>,
                 {"summarize", "encode"})
        ELSE IF added.raised
        THEN out(db, sq, "raised",
                 <<"ThresholdCheck", "BatchSelected", "Summarized", "Aborted">>,
                 {"summarize", "encode", "insert"})
        ELSE IF deleted.raised
        THEN out(deleted.db, added.seq, "raised",
                 <<"ThresholdCheck", "BatchSelected", "Summarized", "Aborted">>,
                 {"summarize", "encode", "insert", "delete"})
        ELSE out(deleted.db, added.seq, "true",
                 <<"ThresholdCheck", "BatchSelected", "Summarized", "Committed">>,
                 {"summarize", "encode", "insert", "delete"})

----------------------------------------------------------------------------
(* main.py process_and_store_facts / api.py _process_message: the dedup
   protocol of the callers *)

\* the extracted facts tried
Items ==
    {[content |-> "b", category |-> "food"],
     [content |-> "z", category |-> "food"],
     [content |-> "b", category |-> "misc"]}

\* the (content, category, embedding) triples tried for a direct add_memory
AddInputs ==
    {[content |-> i.content, category |-> i.category,
      embedding |-> model_encode(i.content)] : i \in Items}
        \cup {[content |-> "n", category |-> "food", embedding |-> NoEmbedding]}

\* env: threshold, now, enc_fail_at (the item whose encode raises, 0
\* for none), fault_at (the item whose INSERT raises, 0 for none)
RECURSIVE StoreFrom(_, _, _, _, _, _)
StoreFrom(db, sq, items, i, env, stored) ==
    IF i > Len(items)
    THEN [db |-> db, seq |-> sq, result |-> "returned", stored |-> stored]
    ELSE LET item == items[i]
             embedding == encode(item.content, env.enc_fail_at = i)
             added == add_memory(db, sq, env.now, item.content, item.category,
                                 embedding.vec, env.fault_at = i)
         IN  IF embedding.raised
             THEN [db |-> db, seq |-> sq, result |-> "raised", stored |-> stored]
             ELSE IF has_similar_memory(db, embedding.vec, item.category,
                                        env.threshold)
             THEN StoreFrom(db, sq, items, i + 1, env, stored)
             ELSE IF added.raised
             THEN [db |-> db, seq |-> sq, result |-> "raised", stored |-> stored]
             ELSE StoreFrom(added.db, added.seq, items, i + 1, env,
                            Append(stored, item))

process_and_store_facts(db, sq, items, env) ==
    StoreFrom(db, sq, items, 1, env, <<>>)

----------------------------------------------------------------------------
(* memory/extractor.py: the fact source *)

\* item.get("category", "misc") of an item that has no "category" key
NoKey == "<no key>"

\* What llm.agent_router.generate may do for the extraction prompt: raise
\* (or fail to import), hand back nothing (None or an empty text), a text
\* json.loads rejects, JSON that is not a list, or a JSON list. The elements of a list are objects with a
\* "content" key and a category label that is in CATEGORIES, outside it, or
\* missing, or something that is not such an object (content NoKey).
RawItems ==
    {[content |-> "b", category |-> "food"],
     [content |-> "b", category |-> "hobby"],
     [content |-> "b", category |-> NoKey],
     [content |-> NoKey, category |-> "food"]}

AgentReplies ==
    {[kind |-> k, items |-> <<>>] :
        k \in {"raised", "none", "unparsable", "not a list"}}
        \cup {[kind |-> "list", items |-> data] :
                 data \in UNION {[1..n -> RawItems] : n \in 0..MaxReply}}

\* what extract_local finds in the message: its patterns carry the labels
\* food, personal, travel and misc only
LocalFinds == {<<>>, <<[content |-> "z", category |-> "food"]>>}

extract_local(found) == found

\* `if cat not in CATEGORIES: cat = "misc"`
coerce_category(cat) == IF cat \notin Range(CATEGORIES) THEN "misc" ELSE cat

\* the loop over the parsed list: items that are objects with a "content"
\* key are kept, their label defaulted to misc and coerced
RECURSIVE ParsedFrom(_, _)
ParsedFrom(data, i) ==
    IF i > Len(data) THEN <<>>
    ELSE IF data[i].content = NoKey THEN ParsedFrom(data, i + 1)
    ELSE LET cat == IF data[i].category = NoKey THEN "misc"
                    ELSE data[i].category
         IN  <<[content |-> data[i].content, category |-> coerce_category(cat)]>>
                 \o ParsedFrom(data, i + 1)

\* a remote extractor that hands on what it parsed, even when that is empty
extract_with_agent_router_no_fallback(found, reply) ==
    IF reply.kind # "list" THEN extract_local(found)
    ELSE ParsedFrom(reply.items, 1)

\* extract_with_agent_router: the local extractor answers whenever the
\* remote call raises, or its reply is missing, unparsable, not a list, or
\* yields no item
extract_with_agent_router(found, reply) ==
    IF reply.kind # "list" THEN extract_local(found)
    ELSE LET result == ParsedFrom(reply.items, 1)
         IN  IF result # <<>> THEN result ELSE extract_local(found)

----------------------------------------------------------------------------
(* memory/retrieval.py *)

\* Python None passed (or inferred) as a category
NoCategory == "None"

\* the categories of CATEGORY_KEYWORDS, in the dict's iteration order
KeywordCategories == <<"food", "travel", "personal">>

CATEGORY_KEYWORDS ==
    [food |-> {"food", "eat", "meal", "restaurant", "cook", "recipe",
               "allergic", "like", "love", "hate", "vegan", "vegetarian",
               "diet"},
     travel |-> {"travel", "trip", "flight", "hotel", "visit", "going to",
                 "vacation", "city", "country", "destination"},
     personal |-> {"name", "work", "job", "family", "pet", "dog", "cat",
                   "home", "live", "from", "birthday", "age"}]

\* A query is its text (what the encoder sees) and the keywords found in
\* its lowercased text as substrings: "b" is "what do i eat", "z" is a
\* text with no keyword, "n" is "my vacation" ("vacation" holds "cat").
Queries ==
    {[text |-> "b", found |-> {"eat"}],
     [text |-> "z", found |-> {}],
     [text |-> "n", found |-> {"vacation", "cat"}]}

\* sum(1 for kw in keywords if kw in q)
KeywordScore(cat, query) == Cardinality(CATEGORY_KEYWORDS[cat] \cap query.found)

\* `if score >= best_score`
RECURSIVE InferFromInclusive(_, _, _, _)
InferFromInclusive(query, i, best, best_score) ==
    IF i > Len(KeywordCategories) THEN best
    ELSE LET cat == KeywordCategories[i]
             score == KeywordScore(cat, query)
         IN  IF score >= best_score
             THEN InferFromInclusive(query, i + 1, cat, score)
             ELSE InferFromInclusive(query, i + 1, best, best_score)

\* the loop of infer_category: a category replaces best only on a strictly
\* higher score
RECURSIVE InferFrom(_, _, _, _)
InferFrom(query, i, best, best_score) ==
    IF i > Len(KeywordCategories) THEN best
    ELSE LET cat == KeywordCategories[i]
             score == KeywordScore(cat, query)
         IN  IF score > best_score
             THEN InferFrom(query, i + 1, cat, score)
             ELSE InferFrom(query, i + 1, best, best_score)

infer_category(query) == InferFrom(query, 1, NoCategory, 0)

\* a slice that keeps one element too many
PySliceOneMore(s, k) == SubSeq(s, 1, Min(k + 1, Len(s)))

\* s[:k] of Python
PySlice(s, k) ==
    IF k >= 0 THEN SubSeq(s, 1, Min(k, Len(s)))
    ELSE SubSeq(s, 1, IF Len(s) + k > 0 THEN Len(s) + k ELSE 0)

RECURSIVE SumFrom(_, _, _)
SumFrom(vs, j, i) ==
    IF j > Len(vs) THEN 0 ELSE vs[j][i] + SumFrom(vs, j + 1, i)

\* a nudge toward the first memory embedding instead of the centroid
jepa_inspired_refine_first(query_embedding, memory_embeddings) ==
    IF memory_embeddings = <<>> THEN query_embedding
    ELSE LET n == Len(memory_embeddings)
         IN  [i \in 1..Len(query_embedding) |->
                 9 * n * query_embedding[i] + n * memory_embeddings[1][i]]

\* jepa_inspired_refine: q + alpha * (centroid - q) with alpha = 0.1, i.e.
\* (9 n q + sum of the n memory embeddings) / (10 n). The vector is kept
\* times 10 n: it is only ever used in cosine_similarity, which a positive
\* factor leaves as it is.
jepa_inspired_refine(query_embedding, memory_embeddings) ==
    IF memory_embeddings = <<>> THEN query_embedding
    ELSE LET n == Len(memory_embeddings)
         IN  [i \in 1..Len(query_embedding) |->
                 9 * n * query_embedding[i] + SumFrom(memory_embeddings, 1, i)]

\* -x[1] of one scored pair sorts before that of another: its similarity
\* is higher (the vectors of the model have non-negative components, so
\* dot >= 0; two candidates of equal real similarity have equal vectors or
\* a zero norm, and then equal floats)
ScoreAbove(s, t) == s.dot * s.dot * t.nn > t.dot * t.dot * s.nn

\* list.sort(key=lambda x: -x[1]) is stable and ascending in -similarity:
\* ascending in similarity would be the reverse
SortsBeforeAscending(scored, i, j) ==
    \/ ScoreAbove(scored[j].sim, scored[i].sim)
    \/ (~ScoreAbove(scored[i].sim, scored[j].sim) /\ i < j)

SortsBefore(scored, i, j) ==
    \/ ScoreAbove(scored[i].sim, scored[j].sim)
    \/ (~ScoreAbove(scored[j].sim, scored[i].sim) /\ i < j)

RECURSIVE SortScored(_, _)
SortScored(scored, idx) ==
    IF idx = {} THEN <<>>
    ELSE LET i == CHOOSE k \in idx : \A j \in idx \ {k} : SortsBefore(scored, k, j)
         IN  <<scored[i].m>> \o SortScored(scored, idx \ {i})

\* a seen_ids set that is never filled
IdsOfNone(ms) == {}

\* `seen_ids = {m.id for m in candidates}`
IdsOf(ms) == {ms[i].id : i \in 1..Len(ms)}

\* `if len(candidates) <= top_k`
fallback_needed_inclusive(candidates, top_k) == Len(candidates) <= top_k

\* `if len(candidates) < top_k`
fallback_needed(candidates, top_k) == Len(candidates) < top_k

\* a fallback that replaces the category's rows by the whole table
gather_candidates_global(db, category, top_k) ==
    LET in_category ==
            IF category # NoCategory /\ category # ""
               /\ category \in Range(CATEGORIES)
            THEN get_memories_by_category(db, category)
            ELSE <<>>
        all_memories == get_all_memories(db)
    IN  IF fallback_needed(in_category, top_k) /\ Len(all_memories) > Len(in_category)
        THEN all_memories
        ELSE in_category

\* a fallback that appends the whole table, seen rows included
gather_candidates_appends_all(db, category, top_k) ==
    LET in_category ==
            IF category # NoCategory /\ category # ""
               /\ category \in Range(CATEGORIES)
            THEN get_memories_by_category(db, category)
            ELSE <<>>
        all_memories == get_all_memories(db)
    IN  IF fallback_needed(in_category, top_k) /\ Len(all_memories) > Len(in_category)
        THEN in_category \o all_memories
        ELSE in_category

\* the candidates of retrieve: the category's rows, extended by the other
\* rows of the table when they are fewer than top_k
gather_candidates(db, category, top_k) ==
    LET in_category ==
            IF category # NoCategory /\ category # ""
               /\ category \in Range(CATEGORIES)
            THEN get_memories_by_category(db, category)
            ELSE <<>>
        all_memories == get_all_memories(db)
        seen_ids == IdsOf(in_category)
    IN  IF fallback_needed(in_category, top_k) /\ Len(all_memories) > Len(in_category)
        THEN in_category \o SelectSeq(all_memories, LAMBDA m : m.id \notin seen_ids)
        ELSE in_category

\* `m.embedding is not None`
has_embedding(m) == m.embedding # NoEmbedding

\* retrieve. enc_fails: the encoder raises if asked. The result carries
\* the candidates gathered and the vector the candidates were scored
\* against.
retrieve(db, query, top_k, category_arg, use_jepa_refine, enc_fails) ==
    LET category == IF category_arg = NoCategory THEN infer_category(query)
                    ELSE category_arg
        candidates == gather_candidates(db, category, top_k)
        with_emb == SelectSeq(candidates, has_embedding)
        query_emb == encode(query.text, enc_fails)
        memory_embs == [i \in 1..Len(with_emb) |-> with_emb[i].embedding]
        refined == IF use_jepa_refine /\ Len(with_emb) > 0
                   THEN jepa_inspired_refine(query_emb.vec, memory_embs)
                   ELSE query_emb.vec
        scored == [i \in 1..Len(with_emb) |->
                      [m |-> with_emb[i],
                       sim |-> cosine_similarity(refined, with_emb[i].embedding)]]
        out(result, mems, calls, against) ==
            [result |-> result, mems |-> mems, calls |-> calls,
             category |-> category, candidates |-> candidates,
             against |-> against]
    IN  IF candidates = <<>> THEN out("returned", <<>>, {}, NoEmbedding)
        ELSE IF with_emb = <<>>
        THEN out("returned", PySlice(candidates, top_k), {}, NoEmbedding)
        ELSE IF query_emb.raised THEN out("raised", <<>>, {"encode"}, NoEmbedding)
        ELSE out("returned", PySlice(SortScored(scored, DOMAIN scored), top_k),
                 IF use_jepa_refine THEN {"encode", "refine"} ELSE {"encode"},
                 refined)

----------------------------------------------------------------------------
(* memory/short_term.py: the recent-turns buffer *)

\* no ShortTermBuffer constructed yet
NoBuffer == [max_size |-> 0 - 2, messages |-> <<>>]

\* the max_size values tried; nothing stops a caller from a negative one
Sizes == (0 - 1)..MaxSize

Roles == {"user", "assistant"}

BufferContents == {"hi", "bye"}

\* Message(role, content): the timestamp defaults to the time of the call
Message(role, content, now) ==
    [role |-> role, content |-> content, timestamp |-> now]

\* ShortTermBuffer(max_size)
ShortTermBuffer(max_size) == [max_size |-> max_size, messages |-> <<>>]

\* a trim that pops the newest message: pop() for pop(0)
TrimNewest(messages, max_size) ==
    IF Len(messages) <= max_size
    THEN [messages |-> messages, raised |-> FALSE]
    ELSE IF max_size < 0 THEN [messages |-> <<>>, raised |-> TRUE]
    ELSE [messages |-> SubSeq(messages, 1, max_size), raised |-> FALSE]

\* `while len(self.messages) > self.max_size: self.messages.pop(0)`;
\* pop(0) on the emptied list raises IndexError (a negative max_size)
RECURSIVE Trim(_, _)
Trim(messages, max_size) ==
    IF Len(messages) <= max_size
    THEN [messages |-> messages, raised |-> FALSE]
    ELSE IF messages = <<>> THEN [messages |-> <<>>, raised |-> TRUE]
    ELSE Trim(Tail(messages), max_size)

\* ShortTermBuffer.add
add(buf, role, content, now) ==
    LET trimmed == Trim(Append(buf.messages, Message(role, content, now)),
                        buf.max_size)
    IN  [buffer |-> [buf EXCEPT !.messages = trimmed.messages],
         raised |-> trimmed.raised]

----------------------------------------------------------------------------
(* api.py under the threaded development server, main.py's loop: the
   callers of the store *)

Callers == 1..MaxCallers

NoItem == [content |-> "", category |-> ""]

\* a caller between two requests
Idle ==
    [pc |-> "idle", item |-> NoItem, embedding |-> NoEmbedding,
     oldest |-> <<>>, content |-> "", summary |-> NoneId,
     threshold |-> 0, compress_count |-> 0, result |-> "none", failed |-> FALSE]

\* serialized: the callers are the turns of main.py's loop, one after the
\* other; otherwise they are requests of api.py, each on its own thread.
\* covers: which batch each stored summary was written for.
NoThreads ==
    [serialized |-> FALSE, covers |-> {}, of |-> [c \in Callers |-> Idle]]

\* a server that never waits for the request in progress
may_begin_always(ts, c) == ts.of[c].pc = "idle"

\* caller c may begin a request: a turn of main.py's loop begins when the
\* turn before it has ended, a request of api.py whenever it arrives
may_begin(ts, c) ==
    /\ ts.of[c].pc = "idle"
    /\ ts.serialized => \A d \in Callers : ts.of[d].pc = "idle"

----------------------------------------------------------------------------
(* llm/gemini.py: the lazily created client and the rotation of API keys *)

\* _client_key_index = None
NoKeyIndex == 0 - 1

\* the values of _client: None (not created yet), False (as left by a
\* creation that failed), or a client made for the key of index key
NoneClient == [kind |-> "None", key |-> NoKeyIndex]

FalseClient == [kind |-> "False", key |-> NoKeyIndex]

ClientFor(i) == [kind |-> "client", key |-> i]

\* bool(client) of "if client", "if not client"
Truthy(client) == client.kind = "client"

\* what the process finds around it: env_keys, the number of keys listed in
\* GEMINI_API_KEY; sdk[i], what creating a client for key i comes to: the
\* new SDK makes one ("new"), the old one does ("old"), both fail ("none")
SdkOutcomes == {"new", "old", "none"}

Environments ==
    UNION {{[env_keys |-> n, sdk |-> f] : f \in [0..(n - 1) -> SdkOutcomes]} :
              n \in 0..MaxKeys}

\* the module globals at import; started: the process is running
NoGemini ==
    [started |-> FALSE, env_keys |-> 0, sdk |-> [i \in {} |-> "none"],
     _client |-> NoneClient, _use_new_sdk |-> "None", _api_keys |-> 0,
     _client_key_index |-> NoKeyIndex, _exhausted_key_indices |-> {},
     _quota_saving_mode |-> FALSE]

\* the keys as a count: the list is cached once it is not empty
_parse_api_keys(g) ==
    IF g._api_keys # 0 THEN [g |-> g, keys |-> g._api_keys]
    ELSE IF g.env_keys = 0 THEN [g |-> g, keys |-> 0]
    ELSE [g |-> [g EXCEPT !._api_keys = g.env_keys], keys |-> g.env_keys]

\* (client, use_new_sdk), or (False, False)
_create_client_for_key(g, i) ==
    IF g.sdk[i] = "new" THEN [client |-> ClientFor(i), use_new_sdk |-> "True"]
    ELSE IF g.sdk[i] = "old" THEN [client |-> ClientFor(i), use_new_sdk |-> "False"]
    ELSE [client |-> FalseClient, use_new_sdk |-> "False"]

\* a loop that tries the exhausted keys too
RECURSIVE _get_client_loop_any_key(_, _, _, _)
_get_client_loop_any_key(g, keys, i, tried) ==
    IF i >= keys THEN [g |-> g, result |-> NoneClient, tried |-> tried]
    ELSE LET made == _create_client_for_key(g, i)
             g1 == [g EXCEPT !._client = made.client,
                             !._use_new_sdk = made.use_new_sdk]
         IN  IF made.client # FalseClient
             THEN [g |-> [g1 EXCEPT !._client_key_index = i],
                   result |-> made.client, tried |-> tried \cup {i}]
             ELSE _get_client_loop_any_key(g1, keys, i + 1, tried \cup {i})

_get_client_any_key(g) ==
    IF g._client # NoneClient
    THEN [g |-> g, result |-> g._client, tried |-> {}]
    ELSE LET parsed == _parse_api_keys(g)
         IN  IF parsed.keys = 0
             THEN [g |-> parsed.g, result |-> NoneClient, tried |-> {}]
             ELSE _get_client_loop_any_key(parsed.g, parsed.keys, 0, {})

\* the for loop of _get_client from index i on; tried: the keys handed to
\* _create_client_for_key
RECURSIVE _get_client_loop(_, _, _, _)
_get_client_loop(g, keys, i, tried) ==
    IF i >= keys THEN [g |-> g, result |-> NoneClient, tried |-> tried]
    ELSE IF i \in g._exhausted_key_indices
    THEN _get_client_loop(g, keys, i + 1, tried)
    ELSE LET made == _create_client_for_key(g, i)
             g1 == [g EXCEPT !._client = made.client,
                             !._use_new_sdk = made.use_new_sdk]
         IN  IF made.client # FalseClient
             THEN [g |-> [g1 EXCEPT !._client_key_index = i],
                   result |-> made.client, tried |-> tried \cup {i}]
             ELSE _get_client_loop(g1, keys, i + 1, tried \cup {i})

_get_client(g) ==
    IF g._client # NoneClient
    THEN [g |-> g, result |-> g._client, tried |-> {}]
    ELSE LET parsed == _parse_api_keys(g)
         IN  IF parsed.keys = 0
             THEN [g |-> parsed.g, result |-> NoneClient, tried |-> {}]
             ELSE _get_client_loop(parsed.g, parsed.keys, 0, {})

is_available(g) ==
    LET got == _get_client(g)
    IN  [g |-> got.g, result |-> got.result # NoneClient]

\* result: whether a key that is not exhausted remains
_switch_to_next_key(g) ==
    LET g1 == [g EXCEPT !._exhausted_key_indices =
                            IF g._client_key_index # NoKeyIndex
                            THEN @ \cup {g._client_key_index} ELSE @,
                        !._client = NoneClient,
                        !._client_key_index = NoKeyIndex]
        parsed == _parse_api_keys(g1)
    IN  [g |-> parsed.g,
         result |-> \E i \in 0..(parsed.keys - 1) :
                        i \notin g1._exhausted_key_indices]

\* how the loop over models and attempts ends: a text was returned, every
\* answer was empty, the last error was not a 429, the last error was a 429
FirstOutcomes == {"text", "empty", "error", "429"}

\* how the one attempt with the next key ends
SecondOutcomes == {"text", "empty", "error"}

\* generate(prompt, system_instruction). The loop over models and attempts
\* is taken by how it ends (first); it makes at least one API call with the
\* client it was given. called: the key of each client an API call was made
\* with, in order; tried, tried_again: the keys handed to
\* _create_client_for_key by the first and by the second _get_client
generate(g, first, second) ==
    LET got == _get_client(g)
    IN  IF ~Truthy(got.result)
        THEN [g |-> got.g, result |-> "None", called |-> <<>>,
              tried |-> got.tried, tried_again |-> {}]
        ELSE IF first = "text"
        THEN [g |-> got.g, result |-> "text", called |-> <<got.result.key>>,
              tried |-> got.tried, tried_again |-> {}]
        ELSE IF first # "429"
        THEN [g |-> got.g, result |-> "None", called |-> <<got.result.key>>,
              tried |-> got.tried, tried_again |-> {}]
        ELSE LET sw == _switch_to_next_key(got.g)
                 again == IF sw.result THEN _get_client(sw.g)
                          ELSE [g |-> sw.g, result |-> NoneClient, tried |-> {}]
                 called == IF Truthy(again.result)
                           THEN <<got.result.key, again.result.key>>
                           ELSE <<got.result.key>>
             IN  IF Truthy(again.result) /\ second = "text"
                 THEN [g |-> again.g, result |-> "text", called |-> called,
                       tried |-> got.tried, tried_again |-> again.tried]
                 ELSE [g |-> [again.g EXCEPT !._quota_saving_mode = TRUE],
                       result |-> "None", called |-> called,
                       tried |-> got.tried, tried_again |-> again.tried]

----------------------------------------------------------------------------
(* history of the last call, for the pre/post statements *)

NoCall ==
    [op |-> "none", result |-> "none", pre |-> {}, arg |-> <<>>,
     path |-> <<>>, calls |-> {}]

TypeOK ==
    /\ sqlite_sequence \in 0..MaxId
    /\ clock \in 0..MaxClock
    /\ \A r \in memories : r.id \in 1..sqlite_sequence
    /\ issued \subseteq 1..MaxId
    /\ Len(adds) <= MaxAdds

Init ==
    /\ memories = {}
    /\ sqlite_sequence = 0
    /\ clock = 0
    /\ last = NoCall
    /\ issued = {}
    /\ buffer = NoBuffer
    /\ adds = <<>>
    /\ threads = NoThreads
    /\ gemini = NoGemini

\* time passes: datetime.utcnow() returns a later value. Timestamps are
\* only compared with each other, so the clock moves on only from a value
\* some row carries.
Tick ==
    /\ last = NoCall
    /\ clock < MaxClock
    /\ \E r \in memories : r.created_at = clock
    /\ clock' = clock + 1
    /\ UNCHANGED <<memories, sqlite_sequence, last, issued, buffer, adds, threads, gemini>>

\* The single caller has taken the result of its last call. Calls are made
\* one at a time: the next one starts after this.
Return ==
    /\ last # NoCall
    /\ last' = NoCall
    /\ UNCHANGED <<memories, sqlite_sequence, clock, issued, buffer, adds, threads, gemini>>

Call(op, result, arg, path, calls) ==
    [op |-> op, result |-> result, pre |-> memories, arg |-> arg,
     path |-> path, calls |-> calls]

AddMemory ==
    \E m \in AddInputs, fault \in BOOLEAN :
        /\ last = NoCall
        /\ sqlite_sequence < MaxId
        /\ \E out \in {add_memory(memories, sqlite_sequence, clock, m.content,
                                  m.category, m.embedding, fault)} :
               /\ memories' = out.db
               /\ issued' = issued \cup {r.id : r \in out.db \ memories}
               /\ sqlite_sequence' = out.seq
               /\ last' = Call("add_memory",
                               IF out.raised THEN "raised" ELSE "true",
                               <<m>>, <<>>, {})
        /\ UNCHANGED <<clock, buffer, adds, threads, gemini>>

\* buffer = ShortTermBuffer(max_size=...)
NewBuffer ==
    \E max_size \in Sizes :
        /\ last = NoCall
        /\ buffer = NoBuffer
        /\ buffer' = ShortTermBuffer(max_size)
        /\ last' = Call("ShortTermBuffer", "returned", <<max_size>>, <<>>, {})
        /\ UNCHANGED <<memories, sqlite_sequence, clock, issued, adds, threads, gemini>>

\* buffer.add(role, content)
BufferAdd ==
    \E role \in Roles, content \in BufferContents :
        /\ last = NoCall
        /\ buffer # NoBuffer
        /\ Len(adds) < MaxAdds
        /\ \E out \in {add(buffer, role, content, clock)} :
               /\ buffer' = out.buffer
               /\ last' = Call("add", IF out.raised THEN "raised" ELSE "returned",
                               <<role, content>>, <<>>, {})
        /\ adds' = Append(adds, Message(role, content, clock))
        /\ UNCHANGED <<memories, sqlite_sequence, clock, issued, threads, gemini>>

\* a direct add_memory of records without an embedding (embedding=None)
PlainInputs ==
    {[content |-> "n", category |-> c, embedding |-> NoEmbedding] :
        c \in InputCategories}

\* the embedding-less inputs and one misc record with an embedding
SparseInputs ==
    PlainInputs \cup
        {[content |-> "b", category |-> "misc", embedding |-> model_encode("b")]}

AddMemorySparse ==
    \E m \in SparseInputs, fault \in BOOLEAN :
        /\ last = NoCall
        /\ sqlite_sequence < MaxId
        /\ \E out \in {add_memory(memories, sqlite_sequence, clock, m.content,
                                  m.category, m.embedding, fault)} :
               /\ memories' = out.db
               /\ issued' = issued \cup {r.id : r \in out.db \ memories}
               /\ sqlite_sequence' = out.seq
               /\ last' = Call("add_memory",
                               IF out.raised THEN "raised" ELSE "true",
                               <<m>>, <<>>, {})
        /\ UNCHANGED <<clock, buffer, adds, threads, gemini>>

AddMemoryPlain ==
    \E m \in PlainInputs, fault \in BOOLEAN :
        /\ last = NoCall
        /\ sqlite_sequence < MaxId
        /\ \E out \in {add_memory(memories, sqlite_sequence, clock, m.content,
                                  m.category, m.embedding, fault)} :
               /\ memories' = out.db
               /\ issued' = issued \cup {r.id : r \in out.db \ memories}
               /\ sqlite_sequence' = out.seq
               /\ last' = Call("add_memory",
                               IF out.raised THEN "raised" ELSE "true",
                               <<m>>, <<>>, {})
        /\ UNCHANGED <<clock, buffer, adds, threads, gemini>>

\* a direct add_memory with a label that is not in CATEGORIES: the INSERT
\* binds whatever label it is given
UnlistedInputs == {[content |-> "n", category |-> "hobby", embedding |-> NoEmbedding]}

AddMemoryUnlisted ==
    \E m \in UnlistedInputs, fault \in BOOLEAN :
        /\ last = NoCall
        /\ sqlite_sequence < MaxId
        /\ \E out \in {add_memory(memories, sqlite_sequence, clock, m.content,
                                  m.category, m.embedding, fault)} :
               /\ memories' = out.db
               /\ issued' = issued \cup {r.id : r \in out.db \ memories}
               /\ sqlite_sequence' = out.seq
               /\ last' = Call("add_memory",
                               IF out.raised THEN "raised" ELSE "true",
                               <<m>>, <<>>, {})
        /\ UNCHANGED <<clock, buffer, adds, threads, gemini>>

DeleteMemories ==
    \E ids \in SUBSET (1..sqlite_sequence), fault \in BOOLEAN :
        /\ last = NoCall
        /\ \E out \in {delete_memories(memories, ids, fault)} :
               /\ memories' = out.db
               /\ issued' = issued \cup {r.id : r \in out.db \ memories}
               /\ last' = Call("delete_memories",
                               IF out.raised THEN "raised" ELSE "returned",
                               <<ids>>, <<>>, {})
        /\ UNCHANGED <<sqlite_sequence, clock, buffer, adds, threads, gemini>>

\* The readers: arg holds the argument, if any, and then the rows returned.

\* the limits tried for get_oldest_memories (a negative LIMIT is no limit)
Limits == (0 - 1)..MaxBatch

GetOldestMemories ==
    \E limit \in Limits :
        /\ last = NoCall
        /\ last' = Call("get_oldest_memories", "returned",
                        <<limit, get_oldest_memories(memories, limit)>>, <<>>, {})
        /\ UNCHANGED <<memories, sqlite_sequence, clock, issued, buffer, adds, threads, gemini>>

GetAllMemories ==
    /\ last = NoCall
    /\ last' = Call("get_all_memories", "returned",
                    <<get_all_memories(memories)>>, <<>>, {})
    /\ UNCHANGED <<memories, sqlite_sequence, clock, issued, buffer, adds, threads, gemini>>

\* the categories asked for: two that records carry and one none carries
QueryCategories == InputCategories \cup {"hobby"}

GetMemoriesByCategory ==
    \E category \in QueryCategories :
        /\ last = NoCall
        /\ last' = Call("get_memories_by_category", "returned",
                        <<category, get_memories_by_category(memories, category)>>,
                        <<>>, {})
        /\ UNCHANGED <<memories, sqlite_sequence, clock, issued, buffer, adds, threads, gemini>>

HasSimilarMemory ==
    \E embedding \in Embeddings, category \in InputCategories,
       threshold \in Thresholds :
        /\ last = NoCall
        /\ last' = Call("has_similar_memory",
                        IF has_similar_memory(memories, embedding, category,
                                              threshold)
                        THEN "true" ELSE "false",
                        <<embedding, category, threshold>>, <<>>, {})
        /\ memories' = after_select(memories)
        /\ UNCHANGED <<sqlite_sequence, clock, issued, buffer, adds, threads, gemini>>

ItemLists == UNION {[1..n -> Items] : n \in 1..MaxItems}

\* enc_fail_at: the item whose encode raises; fault_at: the item whose
\* INSERT raises (0: none); a fault is drawn only where it strikes
\* (path says whether the encoder was the one)
ProcessAndStoreFacts ==
    \E items \in ItemLists, threshold \in Thresholds,
       enc_fail_at \in 0..MaxItems, fault_at \in 0..MaxItems :
        /\ last = NoCall
        /\ sqlite_sequence + Len(items) <= MaxId
        /\ enc_fail_at <= Len(items)
        /\ fault_at <= Len(items)
        /\ enc_fail_at = 0 \/ fault_at = 0
        /\ \E out \in {process_and_store_facts(
                           memories, sqlite_sequence, items,
                           [threshold |-> threshold, now |-> clock,
                            enc_fail_at |-> enc_fail_at, fault_at |-> fault_at])} :
               /\ (enc_fail_at # 0 \/ fault_at # 0) => out.result = "raised"
               /\ memories' = out.db
               /\ issued' = issued \cup {r.id : r \in out.db \ memories}
               /\ sqlite_sequence' = out.seq
               /\ last' = Call("process_and_store_facts", out.result,
                               <<items, threshold, out.stored>>,
                               IF enc_fail_at # 0 THEN <<"EncoderFailed">> ELSE <<>>,
                               {})
        /\ UNCHANGED <<clock, buffer, adds, threads, gemini>>

\* The collaborators answer only when asked: a reply is drawn when the
\* attempt gets as far as the summarizer, an encoder outcome and a database
\* fault when it gets past it (the guards on out.calls say the same of the
\* outcome).
MaybeCompress ==
    \E threshold \in 0..MaxThreshold, compress_count \in 0..MaxBatch :
      \E reply \in IF /\ get_memory_count(memories) >= threshold
                      /\ compress_count # 0 /\ memories # {}
                   THEN SummarizerReplies ELSE {NoReply} :
      \E enc_fails \in IF reply.text # "" THEN BOOLEAN ELSE {FALSE} :
      \E fault \in IF reply.text # "" /\ ~enc_fails
                   THEN CompressFaults ELSE {"none"} :
        /\ last = NoCall
        /\ sqlite_sequence < MaxId
        /\ \E out \in {maybe_compress(memories, sqlite_sequence, clock, threshold,
                                      compress_count, reply, enc_fails, fault)} :
               /\ "summarize" \in out.calls \/ reply = NoReply
               /\ "encode" \in out.calls \/ ~enc_fails
               /\ fault = "none" \/ fault \in out.calls
               /\ memories' = out.db
               /\ issued' = issued \cup {r.id : r \in out.db \ memories}
               /\ sqlite_sequence' = out.seq
               /\ last' = Call("maybe_compress", out.result,
                               <<threshold, compress_count, reply, enc_fails>>,
                               out.path, out.calls)
        /\ UNCHANGED <<clock, buffer, adds, threads, gemini>>

ReplaceWithCompressed ==
    \E old_ids \in SUBSET (0..sqlite_sequence), text \in SummaryTexts,
       new_embedding \in {NoEmbedding, <<1, 0>>}, fault \in ReplaceFaults :
        /\ last = NoCall
        /\ sqlite_sequence < MaxId
        /\ old_ids # {} \/ fault = "none"
        /\ \E out \in {replace_with_compressed(
                           memories, sqlite_sequence, clock, old_ids,
                           "[Compressed summary] " \o text, new_embedding, fault)} :
               /\ fault = "none" \/ (IF fault = "serialize" THEN "dumps"
                                     ELSE fault) \in out.calls
               /\ memories' = out.db
               /\ issued' = issued \cup {r.id : r \in out.db \ memories}
               /\ sqlite_sequence' = out.seq
               /\ last' = Call("replace_with_compressed", out.result,
                               <<old_ids, "[Compressed summary] " \o text,
                                 new_embedding>>,
                               <<>>, out.calls)
        /\ UNCHANGED <<clock, buffer, adds, threads, gemini>>

\* the keywords a query handed to infer_category may hold: three of food,
\* two of travel, two of personal
KeywordPool == {"eat", "like", "love", "trip", "visit", "cat", "dog"}

InferQueries == {[text |-> "z", found |-> f] : f \in SUBSET KeywordPool}

\* infer_category(query) on its own
InferCategory ==
    \E query \in InferQueries :
        /\ last = NoCall
        /\ last' = Call("infer_category", infer_category(query), <<query>>, <<>>, {})
        /\ UNCHANGED <<memories, sqlite_sequence, clock, issued, buffer, adds, threads, gemini>>

\* jepa_inspired_refine(query_embedding, memory_embeddings) on its own.
\* arg: the two arguments and the vector returned
JepaInspiredRefine ==
    \E query_embedding \in Vectors,
       memory_embeddings \in UNION {[1..n -> Vectors] : n \in 0..MaxEmbs} :
        /\ last = NoCall
        /\ last' = Call("jepa_inspired_refine", "returned",
                        <<query_embedding, memory_embeddings,
                          jepa_inspired_refine(query_embedding, memory_embeddings)>>,
                        <<>>, {})
        /\ UNCHANGED <<memories, sqlite_sequence, clock, issued, buffer, adds, threads, gemini>>

\* the process is main.py: every turn ends before the next begins
Serialize ==
    /\ last = NoCall
    /\ threads = NoThreads
    /\ memories = {}
    /\ sqlite_sequence = 0
    /\ threads' = [threads EXCEPT !.serialized = TRUE]
    /\ UNCHANGED <<memories, sqlite_sequence, clock, last, issued, buffer, adds, gemini>>

\* the loop body of _process_message / process_and_store_facts up to the
\* test: encode, then has_similar_memory reads the category's rows. A
\* similar row ends the item (`continue`).
StoreCheck(c) ==
    \E item \in Items :
        /\ last = NoCall
        /\ may_begin(threads, c)
        /\ sqlite_sequence < MaxId
        /\ \E embedding \in {encode(item.content, FALSE).vec} :
              threads' = [threads EXCEPT !.of[c] =
                  IF has_similar_memory(memories, embedding, item.category,
                                        DUPLICATE_SIMILARITY_THRESHOLD)
                  THEN Idle
                  ELSE [Idle EXCEPT !.pc = "adding", !.item = item,
                                    !.embedding = embedding]]
        /\ UNCHANGED <<memories, sqlite_sequence, clock, last, issued, buffer, adds, gemini>>

\* the rest of the loop body: add_memory inserts and commits, or raises
StoreInsert(c) ==
    \E fault \in BOOLEAN :
        /\ last = NoCall
        /\ threads.of[c].pc = "adding"
        /\ threads.of[c].item # NoItem
        /\ sqlite_sequence < MaxId
        /\ \E out \in {add_memory(memories, sqlite_sequence, clock,
                                  threads.of[c].item.content,
                                  threads.of[c].item.category,
                                  threads.of[c].embedding, fault)} :
               /\ memories' = out.db
               /\ issued' = issued \cup {r.id : r \in out.db \ memories}
               /\ sqlite_sequence' = out.seq
        /\ threads' = [threads EXCEPT !.of[c] = Idle]
        /\ UNCHANGED <<clock, last, buffer, adds, gemini>>

\* maybe_compress, first statement: get_memory_count against the threshold.
\* Below it the call returns False at once.
CompressCount(c) ==
    \E threshold \in 0..MaxThreshold :
        /\ last = NoCall
        /\ may_begin(threads, c)
        /\ sqlite_sequence < MaxId
        /\ threads' = [threads EXCEPT !.of[c] =
               IF below_threshold(get_memory_count(memories), threshold)
               THEN Idle
               ELSE [Idle EXCEPT !.pc = "selecting"]]
        /\ UNCHANGED <<memories, sqlite_sequence, clock, last, issued, buffer, adds, gemini>>

\* maybe_compress up to the insert: get_oldest_memories reads the batch,
\* then summarize_memories and encode run on what was read. An empty batch
\* or no summary returns False, an encoder failure raises.
CompressSelect(c) ==
    \E compress_count \in 0..MaxBatch, reply \in SummarizerReplies,
       enc_fails \in BOOLEAN :
        /\ last = NoCall
        /\ threads.of[c].pc = "selecting"
        /\ \E oldest \in {get_oldest_memories(memories, compress_count)} :
           \E summary \in {summarize_memories(ContentsOf(oldest), reply)} :
              /\ (oldest = <<>> \/ no_summary(summary)) => ~enc_fails
              /\ oldest = <<>> => reply = NoReply
              /\ threads' = [threads EXCEPT !.of[c] =
                     IF oldest = <<>> \/ no_summary(summary) \/ enc_fails
                     THEN Idle
                     ELSE [Idle EXCEPT
                              !.pc = "adding", !.oldest = oldest,
                              !.content = "[Compressed summary] " \o summary.text,
                              !.embedding = encode("[Compressed summary] "
                                                      \o summary.text, FALSE).vec]]
        /\ UNCHANGED <<memories, sqlite_sequence, clock, last, issued, buffer, adds, gemini>>

\* maybe_compress: add_memory inserts the summary and commits, or raises
CompressAdd(c) ==
    \E fault \in BOOLEAN :
        /\ last = NoCall
        /\ threads.of[c].pc = "adding"
        /\ threads.of[c].oldest # <<>>
        /\ sqlite_sequence < MaxId
        /\ \E out \in {add_memory(memories, sqlite_sequence, clock,
                                  threads.of[c].content, "misc",
                                  threads.of[c].embedding, fault)} :
               /\ memories' = out.db
               /\ issued' = issued \cup {r.id : r \in out.db \ memories}
               /\ sqlite_sequence' = out.seq
               /\ threads' =
                     IF out.raised
                     THEN [threads EXCEPT !.of[c] = Idle]
                     ELSE [threads EXCEPT
                              !.of[c].pc = "deleting",
                              !.of[c].summary = out.seq,
                              !.covers = @ \cup
                                  {[summary |-> out.seq,
                                    batch |-> IdsOf(threads.of[c].oldest)]}]
        /\ UNCHANGED <<clock, last, buffer, adds, gemini>>

\* maybe_compress, last statement: delete_memories removes the batch that
\* was read and commits, or raises
CompressDelete(c) ==
    \E fault \in BOOLEAN :
        /\ last = NoCall
        /\ threads.of[c].pc = "deleting"
        /\ \E out \in {delete_memories(
                            memories,
                            {threads.of[c].oldest[i].id :
                                i \in {j \in 1..Len(threads.of[c].oldest) :
                                          threads.of[c].oldest[j].id # NoneId}},
                            fault)} :
               memories' = out.db
        /\ threads' = [threads EXCEPT !.of[c] = Idle]
        /\ UNCHANGED <<sqlite_sequence, clock, last, issued, buffer, adds, gemini>>

\* main.py's loop from a turn on at which nothing more is stored: every
\* turn calls maybe_compress with the same threshold and batch size
DrainBegin(c) ==
    \E threshold \in 0..MaxThreshold, compress_count \in 0..MaxBatch :
        /\ last = NoCall
        /\ threads.serialized
        /\ may_begin(threads, c)
        /\ threads' = [threads EXCEPT !.of[c] =
               [Idle EXCEPT !.pc = "draining", !.threshold = threshold,
                            !.compress_count = compress_count]]
        /\ UNCHANGED <<memories, sqlite_sequence, clock, last, issued, buffer, adds, gemini>>

\* one such turn: maybe_compress, statement by statement, with a summarizer
\* that returns a text. enc_fails: encode raises; fault: the INSERT or the
\* DELETE raises. result: what the call returned; failed: the call raised,
\* and main(), which catches nothing, ended with it.
DrainCompress(c, enc_fails, fault) ==
    /\ last = NoCall
    /\ threads.of[c].pc = "draining"
    /\ ~threads.of[c].failed
    /\ sqlite_sequence < 2 * MaxId
    /\ \E oldest \in {IF below_threshold(get_memory_count(memories),
                                         threads.of[c].threshold)
                       THEN <<>>
                       ELSE get_oldest_memories(memories,
                                                threads.of[c].compress_count)} :
       \E reply \in {r \in SummarizerReplies : ~no_summary(r)} :
       \E summary \in {summarize_memories(ContentsOf(oldest), reply)} :
         IF oldest = <<>> \/ no_summary(summary)
         THEN /\ ~enc_fails
              /\ fault = "none"
              /\ threads' = [threads EXCEPT !.of[c].result = "false"]
              /\ UNCHANGED <<memories, sqlite_sequence, issued>>
         ELSE \E embedding \in {encode("[Compressed summary] " \o summary.text,
                                       enc_fails)} :
              IF embedding.raised
              THEN /\ fault = "none"
                   /\ threads' = [threads EXCEPT !.of[c].result = "raised",
                                                 !.of[c].failed = TRUE]
                   /\ UNCHANGED <<memories, sqlite_sequence, issued>>
              ELSE \E added \in {add_memory(memories, sqlite_sequence, clock,
                                            "[Compressed summary] " \o summary.text,
                                            "misc", embedding.vec,
                                            fault = "insert")} :
                   IF added.raised
                   THEN /\ threads' = [threads EXCEPT !.of[c].result = "raised",
                                                      !.of[c].failed = TRUE]
                        /\ UNCHANGED <<memories, sqlite_sequence, issued>>
                   ELSE \E deleted \in {delete_memories(
                                            added.db,
                                            {oldest[i].id :
                                                i \in {j \in 1..Len(oldest) :
                                                          oldest[j].id # NoneId}},
                                            fault = "delete")} :
                        /\ memories' = deleted.db
                        /\ issued' = issued \cup {r.id : r \in deleted.db \ memories}
                        /\ sqlite_sequence' = added.seq
                        /\ threads' =
                              IF deleted.raised
                              THEN [threads EXCEPT !.of[c].result = "raised",
                                                   !.of[c].failed = TRUE]
                              ELSE [threads EXCEPT !.of[c].result = "true"]
    /\ UNCHANGED <<clock, last, buffer, adds, gemini>>

\* the process starts in some environment; the module globals are as at
\* import
GeminiStart ==
    \E env \in Environments :
        /\ last = NoCall
        /\ gemini = NoGemini
        /\ gemini' = [NoGemini EXCEPT !.started = TRUE,
                                      !.env_keys = env.env_keys,
                                      !.sdk = env.sdk]
        /\ UNCHANGED <<memories, sqlite_sequence, clock, last, issued, buffer, adds, threads>>

\* arg: the globals before the call, the keys handed to
\* _create_client_for_key, the client returned
GetClient ==
    /\ last = NoCall
    /\ gemini.started
    /\ \E out \in {_get_client(gemini)} :
           /\ gemini' = out.g
           /\ last' = Call("_get_client", out.result.kind,
                           <<gemini, out.tried, out.result>>, <<>>, {})
    /\ UNCHANGED <<memories, sqlite_sequence, clock, issued, buffer, adds, threads>>

\* arg: the globals before the call
IsAvailable ==
    /\ last = NoCall
    /\ gemini.started
    /\ \E out \in {is_available(gemini)} :
           /\ gemini' = out.g
           /\ last' = Call("is_available",
                           IF out.result THEN "True" ELSE "False",
                           <<gemini>>, <<>>, {})
    /\ UNCHANGED <<memories, sqlite_sequence, clock, issued, buffer, adds, threads>>

\* arg: the globals before the call, the keys API calls were made with, the
\* keys handed to _create_client_for_key before and after the switch
Generate ==
    \E first \in FirstOutcomes, second \in SecondOutcomes :
        /\ last = NoCall
        /\ gemini.started
        /\ \E out \in {generate(gemini, first, second)} :
               /\ gemini' = out.g
               /\ last' = Call("generate", out.result,
                               <<gemini, out.called, out.tried, out.tried_again>>,
                               <<>>, {})
        /\ UNCHANGED <<memories, sqlite_sequence, clock, issued, buffer, adds, threads>>

\* extract_with_agent_router(text) on its own.
\* arg: what the local rules find in the text, the remote reply, the result
ExtractWithAgentRouter ==
    \E found \in LocalFinds, reply \in AgentReplies :
        /\ last = NoCall
        /\ last' = Call("extract_with_agent_router", "returned",
                        <<found, reply, extract_with_agent_router(found, reply)>>,
                        <<>>, {})
        /\ UNCHANGED <<memories, sqlite_sequence, clock, issued, buffer, adds, threads, gemini>>

\* A message goes through the fact source and the extracted facts through
\* the dedup protocol, under the configured threshold. The callers import
\* the remote extractor under names memory/extractor.py does not define;
\* the loop is fed here from the remote extractor the module does define.
\* arg: the remote reply, the extracted items, the items stored
ExtractAndStore ==
    \E found \in LocalFinds, reply \in AgentReplies,
       enc_fail_at \in 0..MaxItems, fault_at \in 0..MaxItems :
        /\ last = NoCall
        /\ Len(reply.items) <= MaxItems
        /\ \E items \in {extract_with_agent_router(found, reply)} :
             /\ sqlite_sequence + Len(items) <= MaxId
             /\ enc_fail_at <= Len(items)
             /\ fault_at <= Len(items)
             /\ enc_fail_at = 0 \/ fault_at = 0
             /\ \E out \in {process_and_store_facts(
                                memories, sqlite_sequence, items,
                                [threshold |-> DUPLICATE_SIMILARITY_THRESHOLD,
                                 now |-> clock, enc_fail_at |-> enc_fail_at,
                                 fault_at |-> fault_at])} :
                    /\ (enc_fail_at # 0 \/ fault_at # 0) => out.result = "raised"
                    /\ memories' = out.db
                    /\ issued' = issued \cup {r.id : r \in out.db \ memories}
                    /\ sqlite_sequence' = out.seq
                    /\ last' = Call("extract_and_store", out.result,
                                    <<reply, items, out.stored>>, <<>>, {})
        /\ UNCHANGED <<clock, buffer, adds, threads, gemini>>

\* category arguments tried: none, a category of the fixed set, a label
\* outside it
CategoryArgs == {NoCategory, "food", "hobby"}

\* arg: query, top_k, category, use_jepa_refine, the resolved category, the
\* candidates gathered, the vector scored against, the records returned
Retrieve ==
    \E query \in Queries, top_k \in 0..MaxTopK, category \in CategoryArgs,
       use_jepa_refine \in BOOLEAN, enc_fails \in BOOLEAN :
        /\ last = NoCall
        /\ \E out \in {retrieve(memories, query, top_k, category,
                                use_jepa_refine, enc_fails)} :
               /\ "encode" \in out.calls \/ ~enc_fails
               /\ last' = Call("retrieve", out.result,
                               <<query, top_k, category, use_jepa_refine,
                                 out.category, out.candidates, out.against,
                                 out.mems>>,
                               <<>>, out.calls)
        /\ memories' = after_select(memories)
        /\ UNCHANGED <<sqlite_sequence, clock, issued, buffer, adds, threads, gemini>>

Next ==
    \/ Return
    \/ Tick
    \/ AddMemory
    \/ DeleteMemories
    \/ HasSimilarMemory
    \/ ProcessAndStoreFacts
    \/ MaybeCompress
    \/ ReplaceWithCompressed
    \/ Retrieve
    \/ ExtractAndStore
    \/ AddMemoryUnlisted
    \/ GetOldestMemories
    \/ GetAllMemories
    \/ GetMemoriesByCategory
    \/ AddMemoryPlain
    \/ NewBuffer
    \/ BufferAdd
    \/ ExtractWithAgentRouter
    \/ InferCategory
    \/ AddMemorySparse
    \/ JepaInspiredRefine
    \/ Serialize
    \/ \E c \in Callers : StoreCheck(c)
    \/ \E c \in Callers : StoreInsert(c)
    \/ \E c \in Callers : CompressCount(c)
    \/ \E c \in Callers : CompressSelect(c)
    \/ \E c \in Callers : CompressAdd(c)
    \/ \E c \in Callers : CompressDelete(c)
    \/ \E c \in Callers : DrainBegin(c)
    \/ \E c \in Callers, enc_fails \in BOOLEAN, fault \in CompressFaults :
          DrainCompress(c, enc_fails, fault)
    \/ GeminiStart
    \/ GetClient
    \/ IsAvailable
    \/ Generate

Spec == Init /\ [][Next]_vars

\* The same program restricted to one group of operations at a time (a
\* single writer calls them one after another; each group keeps the
\* operations that build every store the group's statements quantify over).

\* the atomic replace of the record store (the transaction reads no
\* timestamp, so the rows are built at one clock value)
NextReplace ==
    \/ Return
    \/ AddMemory
    \/ ReplaceWithCompressed

SpecReplace == Init /\ [][NextReplace]_vars

\* the compaction pipeline
NextCompress ==
    \/ Return
    \/ Tick
    \/ AddMemory
    \/ MaybeCompress

SpecCompress == Init /\ [][NextCompress]_vars

\* the similarity query
NextSimilar ==
    \/ Return
    \/ Tick
    \/ AddMemory
    \/ HasSimilarMemory

SpecSimilar == Init /\ [][NextSimilar]_vars

\* the dedup protocol
NextDedup ==
    \/ Return
    \/ Tick
    \/ AddMemory
    \/ ProcessAndStoreFacts

SpecDedup == Init /\ [][NextDedup]_vars

\* retrieval over the stores add_memory builds
NextRetrieve ==
    \/ Return
    \/ Tick
    \/ AddMemory
    \/ Retrieve

SpecRetrieve == Init /\ [][NextRetrieve]_vars

\* the single writer of api.py: facts come in through the dedup protocol
\* only, and compaction runs
NextWriter ==
    \/ Return
    \/ Tick
    \/ ProcessAndStoreFacts
    \/ MaybeCompress

SpecWriter == Init /\ [][NextWriter]_vars

\* the single writer fed by the fact source
NextExtract ==
    \/ Return
    \/ Tick
    \/ ExtractWithAgentRouter
    \/ ExtractAndStore
    \/ MaybeCompress

SpecExtract == Init /\ [][NextExtract]_vars

\* the fact source on its own
NextRouter ==
    \/ Return
    \/ ExtractWithAgentRouter

SpecRouter == Init /\ [][NextRouter]_vars

\* the same writer next to a caller that hands add_memory its own label
NextLabels ==
    \/ Return
    \/ Tick
    \/ AddMemoryUnlisted
    \/ ExtractAndStore
    \/ MaybeCompress

SpecLabels == Init /\ [][NextLabels]_vars

\* the record store under inserts, deletes and compactions
NextStore ==
    \/ Return
    \/ Tick
    \/ AddMemory
    \/ DeleteMemories
    \/ MaybeCompress

SpecStore == Init /\ [][NextStore]_vars

\* the readers of the record store, on the tables inserts and deletes make
NextReaders ==
    \/ Return
    \/ Tick
    \/ AddMemory
    \/ DeleteMemories
    \/ GetOldestMemories
    \/ GetAllMemories
    \/ GetMemoriesByCategory

SpecReaders == Init /\ [][NextReaders]_vars

\* retrieval over a table none of whose records has an embedding
NextPlain ==
    \/ Return
    \/ Tick
    \/ AddMemoryPlain
    \/ Retrieve

SpecPlain == Init /\ [][NextPlain]_vars

\* retrieval over tables that mix embedding-less records of two categories
\* with an embedded record
NextSparse ==
    \/ Return
    \/ Tick
    \/ AddMemorySparse
    \/ Retrieve

SpecSparse == Init /\ [][NextSparse]_vars

\* refinement on its own and inside retrieve, at one instant
NextRefine ==
    \/ Return
    \/ AddMemory
    \/ Retrieve
    \/ JepaInspiredRefine

SpecRefine == Init /\ [][NextRefine]_vars

\* the dedup protocol of several callers on one store
NextRace ==
    \/ Serialize
    \/ Tick
    \/ \E c \in Callers : StoreCheck(c)
    \/ \E c \in Callers : StoreInsert(c)

SpecRace == Init /\ [][NextRace]_vars

\* maybe_compress of several callers on one store, at one instant
NextCompactRace ==
    \/ Serialize
    \/ \E c \in Callers : StoreCheck(c)
    \/ \E c \in Callers : StoreInsert(c)
    \/ \E c \in Callers : CompressCount(c)
    \/ \E c \in Callers : CompressSelect(c)
    \/ \E c \in Callers : CompressAdd(c)
    \/ \E c \in Callers : CompressDelete(c)

SpecCompactRace == Init /\ [][NextCompactRace]_vars

\* the two similarity readers on the stores add_memory builds, at one
\* instant
NextReadOnly ==
    \/ Return
    \/ AddMemory
    \/ Retrieve
    \/ HasSimilarMemory

SpecReadOnly == Init /\ [][NextReadOnly]_vars

\* main.py's loop: facts are stored, then turn after turn calls
\* maybe_compress; a call that can run to its end without raising
\* eventually does
NextProgress ==
    \/ Serialize
    \/ \E c \in Callers : StoreCheck(c)
    \/ \E c \in Callers : StoreInsert(c)
    \/ \E c \in Callers : DrainBegin(c)
    \/ \E c \in Callers, enc_fails \in BOOLEAN, fault \in CompressFaults :
          DrainCompress(c, enc_fails, fault)

SpecProgress ==
    /\ Init
    /\ [][NextProgress]_vars
    /\ WF_vars(\E c \in Callers : DrainCompress(c, FALSE, "none"))

\* llm/gemini.py on its own: one process, its calls one after the other
NextGemini ==
    \/ Return
    \/ GeminiStart
    \/ GetClient
    \/ IsAvailable
    \/ Generate

SpecGemini == Init /\ [][NextGemini]_vars

\* both compactions on the tables add_memory builds, at one instant
NextCompaction ==
    \/ Return
    \/ AddMemory
    \/ MaybeCompress
    \/ ReplaceWithCompressed

SpecCompaction == Init /\ [][NextCompaction]_vars

\* the recent-turns buffer on its own
NextBuffer ==
    \/ Return
    \/ NewBuffer
    \/ BufferAdd

SpecBuffer == Init /\ [][NextBuffer]_vars

\* category inference on its own
NextInfer ==
    \/ Return
    \/ InferCategory

SpecInfer == Init /\ [][NextInfer]_vars

----------------------------------------------------------------------------
(* Statements about the program *)

IsCall(op) == last.op = op

Count(db) == Cardinality(db)

\* the rows a call added to / removed from the table
Inserted == memories \ last.pre

Removed == last.pre \ memories

\* C1: replace_with_compressed is atomic. After a call with a non-empty
\* old_memories, either it returned True, the summary row (new content,
\* category misc, the given embedding) is the one new row and every row whose
\* id is among old_memories is gone while all others are untouched; or it
\* returned False and the table is exactly as before the call.
C1_ReplaceIsAtomic ==
    (IsCall("replace_with_compressed") /\ last.arg[1] # {}) =>
        \/ /\ last.result = "true"
           /\ \E summary \in memories :
                /\ summary \notin last.pre
                /\ \A r \in last.pre : r.id # summary.id
                /\ summary.content = last.arg[2]
                /\ summary.category = "misc"
                /\ summary.embedding = last.arg[3]
                /\ memories = {r \in last.pre : r.id \notin last.arg[1]} \cup {summary}
        \/ /\ last.result = "false"
           /\ memories = last.pre

\* C1 witness: a replace that failed after its INSERT and DELETE had run,
\* on a table holding some of the old rows
C1_Witness ==
    /\ IsCall("replace_with_compressed")
    /\ last.result = "false"
    /\ "delete" \in last.calls
    /\ \E r \in last.pre : r.id \in last.arg[1]
    /\ \E r \in last.pre : r.id \notin last.arg[1]

\* a committed replace that removed some rows and kept others
C1_CommittedReached ==
    /\ IsCall("replace_with_compressed")
    /\ last.result = "true"
    /\ Removed # {}
    /\ last.pre \cap memories # {}

\* maybe_compress got past the summarizer with a text
Summarized == IsCall("maybe_compress") /\ "Summarized" \in Range(last.path)

Committed == IsCall("maybe_compress") /\ "Committed" \in Range(last.path)

\* C2: in maybe_compress a failure after the summary text was obtained
\* (inserting the summary, deleting the batch) leaves the table exactly as
\* it was, with the record count unchanged; only an attempt that reaches
\* Committed changes the table.
C2_FailureAfterSummaryLeavesStore ==
    (IsCall("maybe_compress") /\ ~Committed) =>
        /\ memories = last.pre
        /\ Count(memories) = Count(last.pre)

\* C3: when the summarizer returns no text (None or an empty text),
\* maybe_compress returns False and the table is unchanged: nothing
\* deleted, nothing inserted, the same count.
C3_SummarizerFailureIsNoOp ==
    (/\ IsCall("maybe_compress")
     /\ "summarize" \in last.calls
     /\ (~last.arg[3].some \/ last.arg[3].text = "")) =>
        /\ last.result = "false"
        /\ Inserted = {}
        /\ Removed = {}
        /\ Count(memories) = Count(last.pre)

\* C3 witness: the summarizer was asked about a batch of a non-empty table
\* and returned an empty text
C3_Witness ==
    /\ IsCall("maybe_compress")
    /\ "summarize" \in last.calls
    /\ last.arg[3].some /\ last.arg[3].text = ""
    /\ Count(last.pre) >= 2

\* C4 as claimed: after a successful maybe_compress(threshold, batchSize)
\* the count is the count before minus batchSize plus 1.
C4_CountMinusBatchPlusOne ==
    (IsCall("maybe_compress") /\ last.result = "true") =>
        Count(memories) = Count(last.pre) - last.arg[2] + 1

\* C4 amended: after a successful maybe_compress(threshold, batchSize),
\* batchSize >= 1, the count is the count before minus
\* min(batchSize, count before) plus 1.
C4_CountMinusSelectedPlusOne ==
    (IsCall("maybe_compress") /\ last.result = "true") =>
        /\ last.arg[2] >= 1
        /\ Count(memories)
              = Count(last.pre) - Min(last.arg[2], Count(last.pre)) + 1

\* C4 witness: a successful compaction of a table holding more records
\* than the batch size
C4_Witness ==
    /\ IsCall("maybe_compress")
    /\ last.result = "true"
    /\ Count(last.pre) > last.arg[2]
    /\ Count(memories) = Count(last.pre) - last.arg[2] + 1

\* C5: after a successful maybe_compress exactly the oldest(batchSize)
\* records are gone, i.e. min(batchSize, count) records none of which is
\* newer (by created_at) than a record that stayed; every other record that
\* existed before is still there with the same id, content, category,
\* embedding and created_at; the one new record is the summary.
C5_OldestBatchRemovedOthersKept ==
    (IsCall("maybe_compress") /\ last.result = "true") =>
        /\ Cardinality(Removed) = Min(last.arg[2], Count(last.pre))
        /\ \A r \in Removed : \A k \in last.pre \ Removed :
              r.created_at <= k.created_at
        /\ \A k \in last.pre \ Removed :
              \E m \in memories :
                 /\ m.id = k.id /\ m.content = k.content
                 /\ m.category = k.category /\ m.embedding = k.embedding
                 /\ m.created_at = k.created_at
        /\ \A r \in Removed : \A m \in memories : m.id # r.id
        /\ Cardinality(Inserted) = 1

\* C5 witness: a successful compaction that kept a record strictly newer
\* than one it removed
C5_Witness ==
    /\ IsCall("maybe_compress")
    /\ last.result = "true"
    /\ \E r \in Removed : \E k \in last.pre \cap memories :
          r.created_at < k.created_at

\* C6: the value maybe_compress returns is the success signal: True exactly
\* when the summary was inserted and the whole batch deleted; in every
\* other case it returns False, without raising, and the table is
\* unchanged.
C6_ReturnIsSuccessSignal ==
    IsCall("maybe_compress") =>
        \/ /\ last.result = "true"
           /\ Cardinality(Inserted) = 1
           /\ Cardinality(Removed) = Min(last.arg[2], Count(last.pre))
        \/ /\ last.result = "false"
           /\ memories = last.pre

C8_EncoderFailureStillCommits ==
    (IsCall("maybe_compress") /\ "encode" \in last.calls /\ last.arg[4]) =>
        /\ last.result = "true"
        /\ \E summary \in Inserted : summary.embedding = NoEmbedding
        /\ Cardinality(Removed) = Min(last.arg[2], Count(last.pre))

\* the stored records that carry an item's content, category and embedding
Twins(db, item) ==
    {r \in db : /\ r.content = item.content
                /\ r.category = item.category
                /\ r.embedding = model_encode(item.content)}

\* the similarity the protocol computes between an item's embedding and
\* itself reaches the threshold
SelfSimilar(item, threshold) ==
    LET e == model_encode(item.content)
    IN  SimAtLeast(cosine_similarity(e, e), threshold)

\* C9 as claimed: a fact submitted through the protocol (embed,
\* has_similar_memory, insert only if False) with a threshold <= 1.0 when
\* the table already holds a record with the same content, category and
\* embedding is not inserted again: the number of such records stays as it
\* was.
C9_DedupIdempotent ==
    (IsCall("process_and_store_facts") /\ last.arg[2] <= 100) =>
        \A i \in 1..Len(last.arg[1]) :
            LET item == last.arg[1][i]
            IN  Twins(last.pre, item) # {} =>
                   Cardinality(Twins(memories, item))
                      = Cardinality(Twins(last.pre, item))

\* C9 amended: the same, for a fact whose embedding has a computed cosine
\* similarity with itself of at least the threshold (not a zero-magnitude
\* vector under a positive threshold, and not a threshold that the rounded
\* self-similarity of the vector falls short of).
C9_DedupIdempotentWhenSelfSimilar ==
    IsCall("process_and_store_facts") =>
        \A i \in 1..Len(last.arg[1]) :
            LET item == last.arg[1][i]
            IN  (/\ Twins(last.pre, item) # {}
                 /\ SelfSimilar(item, last.arg[2])) =>
                   /\ Cardinality(Twins(memories, item))
                         = Cardinality(Twins(last.pre, item))
                   /\ \A k \in 1..Len(last.arg[3]) : last.arg[3][k] # item

\* C9 witness: under the configured threshold a fact was submitted whose
\* one twin sat in the table behind an older record of the category, and
\* the call returned with the table as it was
C9_Witness ==
    /\ IsCall("process_and_store_facts")
    /\ last.result = "returned"
    /\ last.arg[2] = DUPLICATE_SIMILARITY_THRESHOLD
    /\ \E i \in 1..Len(last.arg[1]) :
          LET item == last.arg[1][i]
          IN  /\ Cardinality(Twins(last.pre, item)) = 1
              /\ \E t \in Twins(last.pre, item) :
                    \E o \in last.pre : o.category = t.category /\ Before(o, t)
    /\ memories = last.pre

\* C10: has_similar_memory(embedding, category, threshold) is True if and
\* only if the embedding is present and some stored record of that category
\* has an embedding whose cosine similarity with it is >= threshold;
\* records without an embedding, records of other categories, and an absent
\* embedding never give True.
C10_HasSimilarIff ==
    IsCall("has_similar_memory") =>
        LET embedding == last.arg[1]
            category == last.arg[2]
            threshold == last.arg[3]
        IN  /\ memories = last.pre
            /\ (last.result = "true") <=>
                  /\ embedding # NoEmbedding
                  /\ \E r \in last.pre :
                        /\ r.category = category
                        /\ r.embedding # NoEmbedding
                        /\ SimAtLeast(cosine_similarity(embedding, r.embedding),
                                      threshold)

\* C10 witness: a query answered True although the category also holds a
\* record without an embedding, listed first, and another category holds
\* records too
C10_Witness ==
    /\ IsCall("has_similar_memory")
    /\ last.result = "true"
    /\ \E r \in last.pre : \E o \in last.pre :
          /\ r.category = last.arg[2] /\ r.embedding = NoEmbedding
          /\ o.category = last.arg[2] /\ o.embedding # NoEmbedding
          /\ Before(r, o)
    /\ \E r \in last.pre : r.category # last.arg[2]

\* the rows that were in the table when row r was inserted by the last
\* call: ids are handed out in insertion order, and the calls that insert
\* delete nothing before their last insert
PresentAtInsert(r) == {o \in memories \cup last.pre : o.id < r.id}

\* o is a near-duplicate of r under threshold thr
NearDuplicate(o, r, thr) ==
    /\ o.category = r.category
    /\ o.embedding # NoEmbedding
    /\ r.embedding # NoEmbedding
    /\ SimAtLeast(cosine_similarity(r.embedding, o.embedding), thr)

\* C11: with facts added only through the dedup protocol and compaction
\* running, no row is inserted into a category that already holds a row
\* whose embedding has cosine similarity >= the duplicate threshold with the
\* new row's embedding; the summary row that compaction inserts into misc is
\* covered.
C11_NoNearDuplicateInserted ==
    /\ IsCall("process_and_store_facts") =>
          \A r \in Inserted : \A o \in PresentAtInsert(r) :
             ~NearDuplicate(o, r, last.arg[2])
    /\ IsCall("maybe_compress") =>
          \A r \in Inserted : \A o \in PresentAtInsert(r) :
             ~NearDuplicate(o, r, DUPLICATE_SIMILARITY_THRESHOLD)

\* the pieces of the last retrieve call
RetrieveReturned == IsCall("retrieve") /\ last.result = "returned"

TopK == last.arg[2]

Resolved == last.arg[5]

Candidates == last.arg[6]

Returned == last.arg[8]

\* C12: for every store, query, category argument and top_k >= 0, the
\* sequence retrieve returns has at most top_k records, and it is empty for
\* top_k = 0.
C12_AtMostTopK ==
    (RetrieveReturned /\ TopK >= 0) =>
        /\ Len(Returned) <= TopK
        /\ TopK = 0 => Returned = <<>>

\* C12 witness: a ranked retrieve cut more candidates than it returned
C12_Witness ==
    /\ RetrieveReturned
    /\ "encode" \in last.calls
    /\ TopK >= 1
    /\ Len(Candidates) > TopK
    /\ Len(Returned) = TopK

\* C13: when the resolved (inferred or supplied) category is A and the
\* table holds at least top_k records of category A, every record retrieve
\* returns has category A, whatever the other categories hold.
C13_CategoryPreference ==
    (/\ RetrieveReturned
     /\ Resolved # NoCategory
     /\ TopK >= 0
     /\ Cardinality({r \in last.pre : r.category = Resolved}) >= TopK) =>
        \A i \in 1..Len(Returned) : Returned[i].category = Resolved

\* C13 witness: the category was inferred from the query, the table held
\* exactly top_k >= 1 records of it and, in another category, a record with
\* an embedding; records were returned
C13_Witness ==
    /\ RetrieveReturned
    /\ last.arg[3] = NoCategory
    /\ Resolved # NoCategory
    /\ TopK >= 1
    /\ Cardinality({r \in last.pre : r.category = Resolved}) = TopK
    /\ \E r \in last.pre : r.category # Resolved /\ r.embedding # NoEmbedding
    /\ Returned # <<>>

NoneEmbedded == \A r \in last.pre : r.embedding = NoEmbedding

\* C14 as claimed: on a table in which no record has an embedding,
\* retrieve(query, k) returns min(k, count) records in created_at ascending
\* order, without raising and without calling the encoder.
C14_NoEmbeddingChronological ==
    (IsCall("retrieve") /\ NoneEmbedded /\ TopK >= 0) =>
        /\ last.result = "returned"
        /\ "encode" \notin last.calls
        /\ Len(Returned) = Min(TopK, Count(last.pre))
        /\ \A i \in 1..Len(Returned) : \A j \in 1..Len(Returned) :
              i < j => Returned[i].created_at <= Returned[j].created_at

\* C14 amended: on such a table retrieve(query, k) returns min(k, count)
\* records, without raising and without calling the encoder: the records
\* of the resolved category first, then the others, each group in
\* created_at ascending order (so all in that order when no category is
\* resolved or the category holds no record).
C14_NoEmbeddingCategoryFirst ==
    (IsCall("retrieve") /\ NoneEmbedded /\ TopK >= 0) =>
        /\ last.result = "returned"
        /\ "encode" \notin last.calls
        /\ Len(Returned) = Min(TopK, Count(last.pre))
        /\ \A i \in 1..Len(Returned) : Returned[i] \in last.pre
        /\ \A i \in 1..Len(Returned) : \A j \in 1..Len(Returned) :
              i < j =>
                 \/ /\ Returned[i].category = Resolved
                    /\ Returned[j].category # Resolved
                 \/ /\ (Returned[i].category = Resolved)
                          <=> (Returned[j].category = Resolved)
                    /\ Returned[i].created_at <= Returned[j].created_at
                    /\ Returned[i].id # Returned[j].id

\* C14 witness: a table of embedding-less records in two categories, the
\* one of the resolved category newer than one of the other, both returned
C14_Witness ==
    /\ RetrieveReturned
    /\ NoneEmbedded
    /\ Len(Returned) >= 2
    /\ Returned[1].category = Resolved
    /\ Returned[2].category # Resolved
    /\ Returned[2].created_at < Returned[1].created_at

\* the candidates that carry an embedding, in candidate order
Embedded == SelectSeq(Candidates, LAMBDA m : m.embedding # NoEmbedding)

\* the similarity of a candidate to the vector the call scored against
ScoreOf(m) == cosine_similarity(last.arg[7], m.embedding)

PlaceOf(m) == CHOOSE i \in 1..Len(Candidates) : Candidates[i].id = m.id

\* candidate m ranks ahead of candidate c: a higher similarity, or the same
\* and an earlier place among the candidates
RanksAhead(m, c) ==
    \E sm \in {ScoreOf(m)}, sc \in {ScoreOf(c)} :
        \/ ScoreAbove(sm, sc)
        \/ (~ScoreAbove(sc, sm) /\ PlaceOf(m) < PlaceOf(c))

\* C15: when some candidate has an embedding, retrieve returns the
\* candidates that have one, sorted by non-increasing cosine similarity to
\* the query embedding (the refined one when refinement is on), candidates of
\* equal similarity in candidate order, cut to top_k: every returned record
\* ranks ahead of every embedded candidate after it or left out.
C15_RankedBySimilarity ==
    (RetrieveReturned /\ Embedded # <<>> /\ TopK >= 0) =>
        /\ Len(Returned) = Min(TopK, Len(Embedded))
        /\ ~last.arg[4] => last.arg[7] = model_encode(last.arg[1].text)
        /\ \E embedded \in {Range(Embedded)}, returned_ids \in {IdsOf(Returned)} :
              \A i \in 1..Len(Returned) :
                 /\ Returned[i] \in embedded
                 /\ \A j \in 1..Len(Returned) :
                       i < j => RanksAhead(Returned[i], Returned[j])
                 /\ \A m \in embedded :
                       m.id \notin returned_ids => RanksAhead(Returned[i], m)

\* C15 witness: top_k = 1, and the record returned was not the first
\* embedded candidate but one of strictly higher similarity
C15_Witness ==
    /\ RetrieveReturned
    /\ TopK = 1
    /\ Len(Embedded) >= 2
    /\ Len(Returned) = 1
    /\ ScoreAbove(ScoreOf(Returned[1]), ScoreOf(Embedded[1]))

\* C16: every stored record's category is one of personal, food, travel,
\* misc: a record handed to add_memory with another label is stored as
\* misc, and a fact the fact source was handed with a label outside that
\* set leaves it with category misc (neither with the label nor dropped).
C16_CategoryInFixedSet ==
    /\ \A r \in memories : r.category \in Range(CATEGORIES)
    /\ (IsCall("add_memory") /\ last.result = "true") =>
          \A r \in Inserted :
             r.category = coerce_category(last.arg[1].category)
    /\ IsCall("extract_and_store") =>
          LET reply == last.arg[1]
              items == last.arg[2]
          IN  /\ \A i \in 1..Len(items) : items[i].category \in Range(CATEGORIES)
              /\ \A i \in 1..Len(reply.items) :
                    (/\ reply.items[i].content # NoKey
                     /\ reply.items[i].category \notin Range(CATEGORIES)) =>
                        \E k \in 1..Len(items) :
                           /\ items[k].content = reply.items[i].content
                           /\ items[k].category = "misc"

\* C17: record ids are never reused. Across inserts, deletes and
\* compactions, every row a step adds to the table carries an id that no
\* row committed before it carried, deleted rows included.
C17_IdsNeverReused ==
    [][\A r \in memories' \ memories : r.id \notin issued]_vars

\* C17 witness: an insert happened while an id issued earlier was no
\* longer in the table
C17_Witness ==
    /\ IsCall("add_memory") \/ Committed
    /\ Inserted # {}
    /\ \E i \in issued : \A r \in memories \cup last.pre : r.id # i

\* the call a step makes is one that may take the row r out of the table:
\* delete_memories naming its id, or a compaction that committed
Removes(call, r) ==
    \/ call.op = "delete_memories" /\ call.result = "returned" /\ r.id \in call.arg[1]
    \/ call.op = "maybe_compress" /\ "Committed" \in Range(call.path)
    \/ call.op = "replace_with_compressed" /\ call.result = "true"

\* C18: an insert raises the record count by exactly one, the new row
\* carrying the id the store assigned and the content, category and
\* embedding given; in every step every stored row either stays in the
\* table with all five fields as they were, or leaves it altogether (no row
\* with its id remains), and that only by delete_memories or a committed
\* compaction. No step rewrites a stored row.
C18_InsertedStaysUnchanged ==
    [][/\ \A r \in memories :
            \/ r \in memories'
            \/ /\ \A q \in memories' : q.id # r.id
               /\ Removes(last', r)
       /\ (last'.op = "add_memory" /\ last'.result = "true") =>
            /\ get_memory_count(memories') = get_memory_count(memories) + 1
            /\ \E r \in memories' \ memories :
                  /\ r.content = last'.arg[1].content
                  /\ r.category = last'.arg[1].category
                  /\ r.embedding = last'.arg[1].embedding
      ]_vars

\* C18 witness: a call took some rows out of a table and left others, put
\* there by earlier inserts, as they were
C18_Witness ==
    /\ IsCall("delete_memories") \/ Committed
    /\ Removed # {}
    /\ last.pre \cap memories # {}

\* the sequence lists the rows of the set, each once, in insertion order
\* (ids ascending) and with created_at ascending
InInsertionOrder(result, rows) ==
    /\ Range(result) = rows
    /\ Len(result) = Cardinality(rows)
    /\ \A i \in 1..Len(result) : \A j \in 1..Len(result) :
          i < j => /\ result[i].id < result[j].id
                   /\ result[i].created_at <= result[j].created_at

C20_OldestIsPrefixOfAll ==
    (IsCall("get_oldest_memories") /\ last.arg[1] >= 0) =>
        LET n == last.arg[1]
            result == last.arg[2]
            all == get_all_memories(memories)
            k == Min(n, get_memory_count(memories))
        IN  /\ Len(result) = k
            /\ \A i \in 1..k : result[i] = all[i]
            /\ Range(result) \subseteq memories
            /\ \A r \in Range(result) : \A o \in memories \ Range(result) :
                  r.created_at <= o.created_at
            /\ \A i \in 1..k : \A j \in 1..k :
                  i < j => result[i].created_at <= result[j].created_at

\* C20 witness: a limit below the count that cuts between rows of
\* different created_at, and the rows returned are the older ones
C20_Witness ==
    /\ IsCall("get_oldest_memories")
    /\ last.arg[1] > 0
    /\ last.arg[1] < get_memory_count(memories)
    /\ Len(last.arg[2]) = last.arg[1]
    /\ \E o \in memories \ Range(last.arg[2]) :
          \A r \in Range(last.arg[2]) : r.created_at < o.created_at

\* C21: delete_memories(ids) that returns has removed exactly the rows
\* whose id is in ids and left every other row as it was; ids that match no
\* row are passed over; with an empty ids it returns (it reaches no
\* statement that could raise) and the table is unchanged. A call that
\* raises has changed nothing.
C21_DeleteByIds ==
    IsCall("delete_memories") =>
        LET ids == last.arg[1]
        IN  /\ last.result = "returned" =>
                  memories = {r \in last.pre : r.id \notin ids}
            /\ last.result = "raised" => memories = last.pre
            /\ ids = {} => (last.result = "returned" /\ memories = last.pre)

\* C21 witness: a delete naming the id of a stored row and an id no row
\* carries returned, the row named is gone and another row stayed
C21_Witness ==
    /\ IsCall("delete_memories")
    /\ last.result = "returned"
    /\ \E i \in last.arg[1] : \A r \in last.pre : r.id # i
    /\ Removed # {}
    /\ memories # {}

\* the encoder raised for one of the facts of the call
EncoderFailed ==
    IsCall("process_and_store_facts") /\ "EncoderFailed" \in Range(last.path)

\* C22: when the encoder fails while a caller stores the extracted facts,
\* the call does not raise: a record without an embedding is stored for a
\* fact of the call, and facts are stored although the encoder failed.
C22_EncoderFailureDegrades ==
    EncoderFailed =>
        /\ last.result = "returned"
        /\ \E r \in Inserted :
              /\ r.embedding = NoEmbedding
              /\ \E i \in 1..Len(last.arg[1]) :
                    /\ last.arg[1][i].content = r.content
                    /\ last.arg[1][i].category = r.category

\* the calls of retrieve tried for a given record: every query of the
\* model, every top_k up to one more than the table can hold, no category
\* argument or any label, refinement on or off, a working encoder
RetrievableBy(db, r, category_args) ==
    \E query \in Queries, top_k \in 0..(MaxId + 1),
       category \in category_args, use_jepa_refine \in BOOLEAN :
        \E out \in {retrieve(db, query, top_k, category, use_jepa_refine, FALSE)} :
            /\ out.result = "returned"
            /\ \E i \in 1..Len(out.mems) : out.mems[i] = r

\* C23: every record stored without an embedding can be retrieved: some
\* query and top_k (with or without a category argument) make retrieve
\* return it, also when other records of the table carry embeddings.
C23_UnembeddedRetrievable ==
    \A r \in memories :
        r.embedding = NoEmbedding =>
            RetrievableBy(memories, r, {NoCategory, "hobby"} \cup Range(CATEGORIES))

\* C24: a compaction that commits inserts exactly one record, of category
\* misc. From maybe_compress its content is "[Compressed summary] "
\* followed by the summarizer's text and its embedding is the one the
\* encoder produced for that content; from replace_with_compressed content
\* and embedding are the ones handed in, the embedding absent when none
\* was. In neither case is the embedding one of a replaced record's unless
\* it is the one produced.
C24_SummaryRecord ==
    /\ Committed =>
          \E r \in Inserted :
             /\ Inserted = {r}
             /\ r.category = "misc"
             /\ r.content = "[Compressed summary] " \o last.arg[3].text
             /\ r.embedding = model_encode(r.content)
    /\ (IsCall("replace_with_compressed") /\ last.result = "true") =>
          \E r \in Inserted :
             /\ Inserted = {r}
             /\ r.category = "misc"
             /\ r.content = last.arg[2]
             /\ r.embedding = last.arg[3]

\* C24 witness: a committed maybe_compress replaced a food record whose
\* embedding differs from the summary's
C24_Witness ==
    /\ Committed
    /\ \E o \in Removed, r \in Inserted :
          /\ o.category = "food"
          /\ o.embedding # NoEmbedding
          /\ o.embedding # r.embedding

\* C25: a ShortTermBuffer with max_size = N >= 0 holds, after any sequence
\* of add calls, exactly the last min(N, number of adds) messages added, in
\* the order they were added: never more than N, and the message added
\* last is there when N >= 1.
C25_BoundedFifo ==
    (buffer # NoBuffer /\ buffer.max_size >= 0) =>
        LET n == Min(buffer.max_size, Len(adds))
        IN  /\ buffer.messages = SubSeq(adds, Len(adds) - n + 1, Len(adds))
            /\ Len(buffer.messages) <= buffer.max_size
            /\ (buffer.max_size >= 1 /\ adds # <<>>) =>
                  buffer.messages[Len(buffer.messages)] = adds[Len(adds)]

\* C25 witness: more messages were added than the buffer holds, and the
\* one dropped differs from the ones kept
C25_Witness ==
    /\ buffer # NoBuffer
    /\ buffer.max_size >= 1
    /\ Len(adds) > buffer.max_size
    /\ Len(buffer.messages) = buffer.max_size
    /\ \A i \in 1..Len(buffer.messages) : buffer.messages[i] # adds[1]

\* the elements of a remote reply that are objects with a "content" key
RECURSIVE Usable(_)
Usable(data) ==
    IF data = <<>> THEN <<>>
    ELSE IF Head(data).content # NoKey THEN <<Head(data)>> \o Usable(Tail(data))
    ELSE Usable(Tail(data))

\* C26: extract_with_agent_router returns, for every text and every
\* outcome of the remote call, a list of (content, category) pairs whose
\* categories are all in the fixed set. When the remote call raised,
\* returned nothing, something unparsable, something that is no list, or a
\* list with no usable item, the list is the local extractor's (possibly
\* empty); otherwise it is the usable items of the reply, in order, each
\* with its label if that is in the fixed set and misc if not.
C26_FactSourceNeverFails ==
    IsCall("extract_with_agent_router") =>
        LET found == last.arg[1]
            reply == last.arg[2]
            items == last.arg[3]
            usable == Usable(reply.items)
        IN  /\ last.result = "returned"
            /\ \A i \in 1..Len(items) : items[i].category \in Range(CATEGORIES)
            /\ (reply.kind # "list" \/ usable = <<>>) => items = found
            /\ (reply.kind = "list" /\ usable # <<>>) =>
                  /\ Len(items) = Len(usable)
                  /\ \A i \in 1..Len(items) :
                        /\ items[i].content = usable[i].content
                        /\ usable[i].category \in Range(CATEGORIES)
                              => items[i].category = usable[i].category
                        /\ usable[i].category \notin Range(CATEGORIES)
                              => items[i].category = "misc"

\* C26 witness: the remote reply was a list with no usable item and the
\* local rules found a fact, which was returned
C26_Witness ==
    /\ IsCall("extract_with_agent_router")
    /\ last.arg[2].kind = "list"
    /\ last.arg[2].items # <<>>
    /\ last.arg[3] # <<>>
    /\ last.arg[3] = last.arg[1]

\* the keyword score of a category for the query of the call, counted from
\* the keyword table
ScoreIn(cat) == Cardinality({kw \in CATEGORY_KEYWORDS[cat] : kw \in last.arg[1].found})

\* the categories whose score no category exceeds
TopScored ==
    {c \in Range(KeywordCategories) :
        \A d \in Range(KeywordCategories) : ScoreIn(d) <= ScoreIn(c)}

\* C27: infer_category leaves the category unresolved (returns None)
\* whenever two or more categories share the highest keyword score.
C27_TieLeavesUnresolved ==
    (IsCall("infer_category") /\ Cardinality(TopScored) >= 2) =>
        last.result = NoCategory

\* C28: infer_category returns the category whose keyword score is strictly
\* higher than every other category's when there is one, returns None when
\* every score is zero, and never returns misc (nor anything but None or a
\* category of the keyword table).
C28_StrictlyHighestWins ==
    IsCall("infer_category") =>
        /\ \A c \in Range(KeywordCategories) :
              (\A d \in Range(KeywordCategories) \ {c} : ScoreIn(d) < ScoreIn(c))
                  => last.result = c
        /\ (\A c \in Range(KeywordCategories) : ScoreIn(c) = 0)
              => last.result = NoCategory
        /\ last.result # "misc"
        /\ last.result \in Range(KeywordCategories) \cup {NoCategory}

\* C28 witness: the last category of the table won with two keywords
\* against one keyword of each category before it
C28_Witness ==
    /\ IsCall("infer_category")
    /\ last.result = "personal"
    /\ ScoreIn("personal") = 2
    /\ ScoreIn("food") = 1
    /\ ScoreIn("travel") = 1

\* the records of the resolved category in the table the call read
OfResolved == {r \in last.pre : r.category = Resolved}

\* C29: when the resolved category holds fewer than top_k records and
\* retrieve extends the candidates with the rest of get_all_memories(),
\* a result that omits a record of the resolved category contains no
\* record of another category.
C29_CategoryPreferredOnTruncation ==
    (/\ RetrieveReturned
     /\ Resolved # NoCategory
     /\ Cardinality(OfResolved) < TopK
     /\ last.pre # OfResolved) =>
        ((\E r \in OfResolved : \A i \in 1..Len(Returned) : Returned[i] # r)
            => \A i \in 1..Len(Returned) : Returned[i].category = Resolved)

\* record a comes before record b in category-first, then chronological
\* order
Precedes(a, b) ==
    \/ a.category = Resolved /\ b.category # Resolved
    \/ /\ (a.category = Resolved) <=> (b.category = Resolved)
       /\ a.created_at < b.created_at

\* C30: when candidates exist but none carries an embedding, retrieve
\* returns, without raising, the first top_k records in category-first, then
\* chronological order: no returned record comes after a later returned one
\* or after a record left out, and each record appears once.
C30_CategoryFirstThenChronological ==
    (/\ IsCall("retrieve")
     /\ TopK >= 0
     /\ Candidates # <<>>
     /\ \A i \in 1..Len(Candidates) : Candidates[i].embedding = NoEmbedding) =>
        /\ last.result = "returned"
        /\ Len(Returned) = Min(TopK, Count(last.pre))
        /\ \A i \in 1..Len(Returned) : Returned[i] \in last.pre
        /\ \A i \in 1..Len(Returned) : \A j \in 1..Len(Returned) :
              i < j => /\ Returned[i] # Returned[j]
                       /\ ~Precedes(Returned[j], Returned[i])
        /\ \A r \in last.pre :
              (\A i \in 1..Len(Returned) : Returned[i] # r)
                  => \A i \in 1..Len(Returned) : ~Precedes(r, Returned[i])

\* C30 witness: a record of the resolved category was returned ahead of an
\* older record of another category, and a third record was left out
C30_Witness ==
    /\ RetrieveReturned
    /\ \A i \in 1..Len(Candidates) : Candidates[i].embedding = NoEmbedding
    /\ Len(Returned) = 2
    /\ Count(last.pre) = 3
    /\ Returned[1].category = Resolved
    /\ Returned[2].category # Resolved
    /\ Returned[2].created_at < Returned[1].created_at

\* C30, second case: the candidates were the resolved category's records
\* alone, none embedded, while the table held an embedded record
C30_WitnessCategoryOnly ==
    /\ RetrieveReturned
    /\ Returned # <<>>
    /\ \A i \in 1..Len(Candidates) : Candidates[i].embedding = NoEmbedding
    /\ \E r \in last.pre : r.embedding # NoEmbedding

\* the sum of the vectors vs at coordinate i
RECURSIVE CoordSum(_, _)
CoordSum(vs, i) == IF vs = <<>> THEN 0 ELSE Head(vs)[i] + CoordSum(Tail(vs), i)

\* q + 0.1 * (mean(vs) - q), times 10 * Len(vs), at coordinate i
NudgedAt(q, vs, i) == 9 * Len(vs) * q[i] + CoordSum(vs, i)

\* C31: jepa_inspired_refine returns the query unchanged for an empty list
\* and otherwise the query moved a tenth of the way to the centroid. A
\* retrieve with refinement on scores against one vector, the encoded query
\* refined once with the embeddings of all embedded candidates, and its
\* result is ordered by similarity to that vector; with refinement off
\* the refinement is not called and the vector is the encoded query.
C31_RefinedOnceBeforeRanking ==
    /\ IsCall("jepa_inspired_refine") =>
          LET q == last.arg[1]
              vs == last.arg[2]
              out == last.arg[3]
          IN  /\ vs = <<>> => out = q
              /\ vs # <<>> =>
                    /\ Len(out) = Len(q)
                    /\ \A i \in 1..Len(q) : out[i] = NudgedAt(q, vs, i)
    /\ (RetrieveReturned /\ Embedded # <<>>) =>
          LET q == model_encode(last.arg[1].text)
              vs == [i \in 1..Len(Embedded) |-> Embedded[i].embedding]
              against == last.arg[7]
          IN  /\ last.arg[4] <=> "refine" \in last.calls
              /\ ~last.arg[4] => against = q
              /\ last.arg[4] =>
                    /\ Len(against) = Len(q)
                    /\ \A i \in 1..Len(q) : against[i] = NudgedAt(q, vs, i)
              /\ \A i \in 1..Len(Returned) : \A j \in 1..Len(Returned) :
                    i < j => ~ScoreAbove(cosine_similarity(against, Returned[j].embedding),
                                         cosine_similarity(against, Returned[i].embedding))
    /\ (RetrieveReturned /\ Embedded = <<>>) => "refine" \notin last.calls

\* C31 witness: a retrieve with refinement on scored two candidates of
\* different embeddings against a vector that is not the encoded query
C31_Witness ==
    /\ RetrieveReturned
    /\ last.arg[4]
    /\ Len(Embedded) >= 2
    /\ \E i, j \in 1..Len(Embedded) : Embedded[i].embedding # Embedded[j].embedding
    /\ last.arg[7] # model_encode(last.arg[1].text)
    /\ Len(Returned) = 2

\* two stored records of one category whose embeddings the code finds
\* similar at the duplicate threshold
SimilarPair ==
    \E r1, r2 \in memories :
        /\ r1.id # r2.id
        /\ r1.category = r2.category
        /\ r1.embedding # NoEmbedding
        /\ r2.embedding # NoEmbedding
        /\ SimAtLeast(cosine_similarity(r1.embedding, r2.embedding),
                      DUPLICATE_SIMILARITY_THRESHOLD)

\* C32: when every has_similar_memory + add_memory sequence runs to its end
\* before the next begins, the store never holds two records of one
\* category with similarity >= the duplicate threshold (callers that
\* interleave the two steps do reach such a store: C32_Witness).
C32_SerializedDedupHolds == threads.serialized => ~SimilarPair

\* C32 witness: without serialization two callers both inserted the same
\* (content, category, embedding)
C32_Witness ==
    /\ ~threads.serialized
    /\ \E r1, r2 \in memories :
          /\ r1.id # r2.id
          /\ r1.content = r2.content
          /\ r1.category = r2.category
          /\ r1.embedding = r2.embedding
          /\ SimAtLeast(cosine_similarity(r1.embedding, r2.embedding),
                        DUPLICATE_SIMILARITY_THRESHOLD)

\* the summaries written for a batch that holds id
CoveredBy(id) == {k \in threads.covers : id \in k.batch}

\* C33: with at most one maybe_compress in flight, every record that
\* compaction removed is covered by exactly one summary (concurrent
\* calls reach a store in which one record is covered by two).
C33_OneSummaryPerRemoved ==
    threads.serialized =>
        \A id \in issued \ {r.id : r \in memories} :
            Cardinality(CoveredBy(id)) = 1

\* two maybe_compress calls in flight at once left two stored summaries
\* written for the same record
C33_OverlappingBatches ==
    /\ ~threads.serialized
    /\ \E id \in issued \ {r.id : r \in memories} :
          /\ Cardinality(CoveredBy(id)) = 2
          /\ \A k \in CoveredBy(id) : \E r \in memories : r.id = k.summary
    /\ \A c \in Callers : threads.of[c].pc = "idle"

\* C34: retrieve and has_similar_memory are read-only: after the call,
\* returned or raised, the table holds the records it held before (ids,
\* contents, categories, embeddings, created_at) and the count is the same.
C34_ReadersAreReadOnly ==
    (IsCall("retrieve") \/ IsCall("has_similar_memory")) =>
        /\ memories = last.pre
        /\ get_memory_count(memories) = get_memory_count(last.pre)

\* C34 witness: a retrieve that raised (the encoder failed) on a table that
\* holds records
C34_Witness ==
    /\ IsCall("retrieve")
    /\ last.result = "raised"
    /\ last.pre # {}
    /\ memories # {}

\* C35: every sequence retrieve returns holds only records that were in
\* the table when it was called, and no record id twice, also when the
\* category's candidates were extended with the rest of the table.
C35_ReturnedAreStoredOnce ==
    RetrieveReturned =>
        /\ \A i \in 1..Len(Returned) : Returned[i] \in last.pre
        /\ \A i \in 1..Len(Returned) : \A j \in 1..Len(Returned) :
              i # j => Returned[i].id # Returned[j].id

\* C35 witness: the category held a record but fewer than top_k, the
\* candidates were extended, and the result holds a record of the category
\* and a record of another
C35_Witness ==
    /\ RetrieveReturned
    /\ Resolved # NoCategory
    /\ OfResolved # {}
    /\ Cardinality(OfResolved) < TopK
    /\ Len(Candidates) > Cardinality(OfResolved)
    /\ \E i \in 1..Len(Returned) : Returned[i].category = Resolved
    /\ \E i \in 1..Len(Returned) : Returned[i].category # Resolved

Draining ==
    \E c \in Callers :
        /\ threads.of[c].pc = "draining"
        /\ threads.of[c].threshold >= 2
        /\ threads.of[c].compress_count >= 2

\* ... and the count is below its threshold
Drained ==
    \E c \in Callers :
        /\ threads.of[c].pc = "draining"
        /\ get_memory_count(memories) < threads.of[c].threshold

\* ... and a call has raised, which ended the loop
DrainFailed ==
    \E c \in Callers : threads.of[c].pc = "draining" /\ threads.of[c].failed

AllExhausted(g) == 0..(g.env_keys - 1) \subseteq g._exhausted_key_indices

\* C38: a key index marked exhausted is never again handed to
\* _create_client_for_key nor returned as the key of the client, by
\* _get_client called on its own or inside generate, and no client for it
\* is held; when every configured key is exhausted _get_client returns
\* None and generate returns None without an API call.
C38_ExhaustedKeysStayOut ==
    /\ Truthy(gemini._client)
           => gemini._client.key \notin gemini._exhausted_key_indices
    /\ last.op = "_get_client" =>
           /\ last.arg[2] \cap last.arg[1]._exhausted_key_indices = {}
           /\ Truthy(last.arg[3])
                  => last.arg[3].key \notin last.arg[1]._exhausted_key_indices
           /\ AllExhausted(last.arg[1]) => last.arg[3] = NoneClient
    /\ last.op = "generate" =>
           /\ last.arg[3] \cap last.arg[1]._exhausted_key_indices = {}
           /\ last.arg[4] \cap gemini._exhausted_key_indices = {}
           /\ \A n \in 1..Len(last.arg[2]) :
                  last.arg[2][n] \notin last.arg[1]._exhausted_key_indices
           /\ Len(last.arg[2]) = 2
                  => last.arg[2][2] \notin gemini._exhausted_key_indices
           /\ AllExhausted(last.arg[1])
                  => last.result = "None" /\ last.arg[2] = <<>>

\* C38 witness: generate is called when each of two keys has been marked
\* exhausted
C38_Witness ==
    /\ last.op = "generate"
    /\ last.arg[1].env_keys >= 2
    /\ AllExhausted(last.arg[1])

\* ... and a call of generate that moved from an exhausted key to the next
C38_WitnessRotated ==
    /\ last.op = "generate"
    /\ Len(last.arg[2]) = 2
    /\ last.arg[2][1] \in gemini._exhausted_key_indices

\* creating a client fails for every configured key of g not exhausted
CreationFailsForAll(g) ==
    \A i \in 0..(g.env_keys - 1) :
        i \notin g._exhausted_key_indices => g.sdk[i] = "none"

\* C39: where creating a client fails for every configured key that is not
\* exhausted, is_available() returns False, on the first call and on every
\* later one.
C39_UnavailableWhenCreationFails ==
    (last.op = "is_available" /\ CreationFailsForAll(last.arg[1]))
        => last.result = "False"

\* ... which holds of the call that finds _client = None
C39_FirstCallUnavailable ==
    (/\ last.op = "is_available"
     /\ CreationFailsForAll(last.arg[1])
     /\ last.arg[1]._client = NoneClient)
        => last.result = "False"

\* a call of is_available() that found _client = False
C39_LaterCall ==
    /\ last.op = "is_available"
    /\ last.arg[1]._client = FalseClient

====
